---- MODULE Spec2Model ----
(***************************************************************************)
(* Moodify: the playlist pipeline of src/app/api/generatePlaylist/route.ts *)
(* (POST handler and the helpers it calls).                                *)
(*                                                                         *)
(* Text is a sequence of words (a word is a TLA+ string); the empty text   *)
(* is << >>.  Numbers in [0,1] are kept in hundredths, tempo in BPM.       *)
(* A JavaScript object with optional fields is a function whose domain     *)
(* holds the fields that are present.                                      *)
(***************************************************************************)
EXTENDS Integers, Sequences, FiniteSets, TLC

(***************************************************************************)
(* Text                                                                    *)
(***************************************************************************)
\* the value `undefined` of a text field, and what a template literal prints for it
UNDEFINED == <<"<undefined>">>
Tpl(s) == IF s = UNDEFINED THEN <<"undefined">> ELSE s
\* x || ""  and  x ?? ""  on a text field
OrEmpty(s) == IF s = UNDEFINED THEN << >> ELSE s

\* String.prototype.toLowerCase, word by word
LowerWord(w) ==
  CASE w = "T01" -> "t01"
    [] w = "AA" -> "aa"
    [] w = "Qawwali" -> "qawwali"
    [] w = "Pop" -> "pop"
    [] w = "Happy" -> "happy"
    [] w = "Sad" -> "sad"
    [] w = "Chill" -> "chill"
    [] w = "Energetic" -> "energetic"
    [] w = "Romantic" -> "romantic"
    [] w = "Focus" -> "focus"
    [] OTHER -> w
Lower(s) == [i \in DOMAIN s |-> LowerWord(s[i])]

\* String.prototype.trim
RECURSIVE TrimLeft(_)
TrimLeft(s) == IF s # << >> /\ Head(s) = " " THEN TrimLeft(Tail(s)) ELSE s
RECURSIVE TrimRight(_)
TrimRight(s) ==
  IF s # << >> /\ s[Len(s)] = " " THEN TrimRight(SubSeq(s, 1, Len(s) - 1)) ELSE s
Trim(s) == TrimRight(TrimLeft(s))

\* the search terms (regular-expression alternatives, keywords) that occur inside a word
SubWords(w) ==
  CASE w = "rainy" -> {"rainy", "rain"}
    [] w = "raining" -> {"raining", "rain"}
    [] w = "heartbreak" -> {"heartbreak", "heart", "break"}
    [] w = "heartbroken" -> {"heartbroken", "heart"}
    [] w = "breakup" -> {"breakup", "break.?up", "break"}
    [] w = "girlfriend is mad at me" -> {"girlfriend .*mad", "mad at me"}
    [] w = "depressed" -> {"depressed", "depress"}
    [] w = "celebrate" -> {"celebrate", "celebrat"}
    [] w = "deep work" -> {"deep work", "deep", "work"}
    [] w = "pakistani pop" -> {"pakistani pop", "pakistani", "pakistan", "pop"}
    [] w = "dua lipa" -> {"dua lipa", "dua"}
    [] w = "upbeat song" -> {"upbeat song", "upbeat"}
    [] OTHER -> {w}
\* String.prototype.includes / RegExp.test: does the text hold the term, or one of the terms
Includes(hay, w) == \E i \in DOMAIN hay : w \in SubWords(hay[i])
IncludesAny(hay, ws) == \E i \in DOMAIN hay : SubWords(hay[i]) \cap ws # {}
EndsWith(s, w) == s # << >> /\ s[Len(s)] = w

\* Array.prototype.join(", "): an undefined element is joined as the empty text
RECURSIVE JoinNames(_)
JoinNames(names) ==
  IF names = << >> THEN << >>
  ELSE IF Len(names) = 1 THEN OrEmpty(names[1])
  ELSE OrEmpty(names[1]) \o <<", ">> \o JoinNames(Tail(names))
\* hay.includes(text) for a text of several words
IncludesText(hay, txt) ==
  /\ txt # << >>
  /\ \E i \in 1..(Len(hay) - Len(txt) + 1) :
       \A j \in DOMAIN txt : txt[j] \in SubWords(hay[i + j - 1])
\* artist.split(",")[0].trim()
PrimaryArtistName(artist) ==
  LET cuts == {i \in DOMAIN artist : artist[i] = ", "}
      n == IF cuts = {} THEN Len(artist) ELSE (CHOOSE i \in cuts : \A k \in cuts : i <= k) - 1
  IN Trim(SubSeq(artist, 1, n))

\* generic sequence helpers
FlatMap(s, F(_)) ==
  LET f[i \in 0..Len(s)] == IF i = 0 THEN << >> ELSE f[i - 1] \o F(s[i])
  IN f[Len(s)]
Range(s) == {s[i] : i \in DOMAIN s}
Take(s, n) == SubSeq(s, 1, IF n < Len(s) THEN n ELSE Len(s))
Min2(a, b) == IF a < b THEN a ELSE b
Max2(a, b) == IF a > b THEN a ELSE b
Abs(x) == IF x < 0 THEN 0 - x ELSE x
EmptyObj == [k \in {} |-> 0]

\* Array.prototype.sort (stable); Before(a, b) = "the comparator puts a strictly before b"
InsertSorted(sorted, x, Before(_, _)) ==
  LET idx == {j \in DOMAIN sorted : Before(x, sorted[j])}
      p == IF idx = {} THEN Len(sorted) + 1 ELSE CHOOSE j \in idx : \A k \in idx : j <= k
  IN SubSeq(sorted, 1, p - 1) \o <<x>> \o SubSeq(sorted, p, Len(sorted))
StableSort(s, Before(_, _)) ==
  LET f[i \in 0..Len(s)] == IF i = 0 THEN << >> ELSE InsertSorted(f[i - 1], s[i], Before)
  IN f[Len(s)]

(***************************************************************************)
(* Mood tables                                                             *)
(***************************************************************************)
Moods == {"Happy", "Sad", "Chill", "Energetic", "Romantic", "Focus"}

\* getMoodTargets: the mood is lower-cased and matched by substring
MoodTargetsOf(v, e, d, t) ==
  [k \in {"valence", "energy", "danceability", "tempo"} |->
     CASE k = "valence" -> v [] k = "energy" -> e [] k = "danceability" -> d [] OTHER -> t]
\* a table that forgets the valence of the moods without a branch of their own
getMoodTargetsPartial(mood) ==
  LET m == Lower(<<mood>>)
  IN IF Includes(m, "happy") THEN MoodTargetsOf(80, 70, 60, 110)
     ELSE IF Includes(m, "sad") THEN MoodTargetsOf(20, 30, 30, 80)
     ELSE IF Includes(m, "chill") THEN MoodTargetsOf(40, 40, 40, 90)
     ELSE IF Includes(m, "energetic") THEN MoodTargetsOf(70, 90, 70, 125)
     ELSE IF Includes(m, "romantic") THEN MoodTargetsOf(60, 50, 50, 95)
     ELSE IF Includes(m, "angry") THEN MoodTargetsOf(30, 90, 50, 135)
     ELSE [k \in {"energy", "danceability", "tempo"} |->
             CASE k = "energy" -> 60 [] k = "danceability" -> 60 [] OTHER -> 110]
getMoodTargets(mood) ==
  LET m == Lower(<<mood>>)
  IN IF Includes(m, "happy") THEN MoodTargetsOf(80, 70, 60, 110)
     ELSE IF Includes(m, "sad") THEN MoodTargetsOf(20, 30, 30, 80)
     ELSE IF Includes(m, "chill") THEN MoodTargetsOf(40, 40, 40, 90)
     ELSE IF Includes(m, "energetic") THEN MoodTargetsOf(70, 90, 70, 125)
     ELSE IF Includes(m, "romantic") THEN MoodTargetsOf(60, 50, 50, 95)
     ELSE IF Includes(m, "angry") THEN MoodTargetsOf(30, 90, 50, 135)
     ELSE MoodTargetsOf(60, 60, 60, 110)

\* MOOD_PROFILE[mood].keywords / .exampleGenres (lower-cased), one word each
MoodKeywords(mood) ==
  CASE mood = "Sad" -> <<"emotional", "mellow", "soft", "slow", "ballad">>
    [] mood = "Chill" -> <<"relaxing", "calm", "ambient", "lo-fi", "downtempo">>
    [] mood = "Energetic" -> <<"fast", "driving", "hype", "intense", "club">>
    [] mood = "Focus" -> <<"minimal", "instrumental", "ambient", "smooth", "study">>
    [] mood = "Romantic" -> <<"soft", "warm", "melodic", "heartfelt", "love">>
    [] OTHER -> <<"upbeat", "joyful", "bright", "lively", "feel good">>
MoodExampleGenres(mood) ==
  CASE mood = "Sad" -> <<"acoustic", "piano", "soul", "emo">>
    [] mood = "Chill" -> <<"chillhop", "downtempo", "electronic", "lofi">>
    [] mood = "Energetic" -> <<"edm", "rock", "trap", "punk">>
    [] mood = "Focus" -> <<"lo-fi", "classical", "soft electronic", "piano">>
    [] mood = "Romantic" -> <<"r&b", "soul", "acoustic pop", "romance">>
    [] OTHER -> <<"pop", "indie pop", "funk", "dance">>

(***************************************************************************)
(* Vibe/Signal extractor                                                   *)
(***************************************************************************)
\* a partial object: set a field, read a field with the ?? default
SetField(t, k, v) == [x \in DOMAIN t \cup {k} |-> IF x = k THEN v ELSE t[x]]
GetOr(t, k, dflt) == IF k \in DOMAIN t THEN t[k] ELSE dflt

\* Array.from(new Set(xs)): first occurrences, in order
Uniq(xs) ==
  LET f[i \in 0..Len(xs)] ==
        IF i = 0 THEN << >>
        ELSE IF \E j \in 1..(i - 1) : xs[j] = xs[i] THEN f[i - 1] ELSE Append(f[i - 1], xs[i])
  IN f[Len(xs)]

\* the alternatives of each regular expression of extractVibeSignals
RainWords == {"rain", "raining", "storm", "monsoon"}
HeartbreakWords == {"break.?up", "heartbreak", "heartbroken", "girlfriend .*mad", "boyfriend .*mad",
                    "fight", "argument", "arguing", "mad at me"}
NostalgiaWords == {"nostalgic", "nostalgia", "remember", "missing", "old times", "retro", "90s",
                   "80s", "2000s"}
AngryWords == {"angry", "furious", "rage", "pissed"}
FocusWords == {"study", "focus", "work", "coding", "deep work", "concentrate", "instrumental"}
PartyWords == {"party", "dance", "club", "celebrat", "birthday", "wedding"}
SadWords == {"lonely", "alone", "cry", "tears", "blue", "depress", "sad"}
IntensifierWords == {"very", "so", "really", "super", "extremely"}

VibeStart(fallbackMood) ==
  [moodKey |-> fallbackMood, energy |-> "mid", tone |-> "neutral", keywords |-> << >>,
   targets |-> EmptyObj, contexts |-> << >>]

RuleRain(s, st) ==
  IF ~IncludesAny(s, RainWords) THEN st
  ELSE [st EXCEPT !.contexts = Append(@, "rainy"),
                  !.keywords = @ \o <<"rain", "lofi", "ambient">>,
                  !.targets = SetField(SetField(@, "energy", 35), "tempo", 80),
                  !.tone = IF @ = "neutral" THEN "reflective" ELSE @]
RuleHeartbreak(s, st) ==
  IF ~IncludesAny(s, HeartbreakWords) THEN st
  ELSE [st EXCEPT !.moodKey = "Sad", !.tone = "heartbroken",
                  !.keywords = @ \o <<"heartbreak", "emotional", "ballad", "r&b">>,
                  !.targets = SetField(SetField(@, "valence", 25), "energy",
                                       Min2(GetOr(@, "energy", 100), 45))]
RuleNostalgia(s, st) ==
  IF ~IncludesAny(s, NostalgiaWords) THEN st
  ELSE [st EXCEPT !.tone = "nostalgic",
                  !.keywords = @ \o <<"nostalgia", "retro", "lofi", "synthwave">>,
                  !.moodKey = IF @ = "Energetic" THEN "Chill" ELSE @,
                  !.targets = SetField(SetField(@, "energy", Min2(GetOr(@, "energy", 100), 50)),
                                       "tempo", Min2(GetOr(@, "tempo", 999), 95))]
RuleAngry(s, st) ==
  IF ~IncludesAny(s, AngryWords) THEN st
  ELSE [st EXCEPT !.moodKey = "Energetic", !.energy = "high", !.tone = "angry",
                  !.keywords = @ \o <<"rock", "edm", "trap">>,
                  !.targets = SetField(SetField(@, "energy", Max2(GetOr(@, "energy", 0), 85)),
                                       "tempo", Max2(GetOr(@, "tempo", 0), 125))]
RuleFocus(s, st) ==
  IF ~IncludesAny(s, FocusWords) THEN st
  ELSE [st EXCEPT !.moodKey = "Focus", !.energy = "low", !.tone = "focused",
                  !.keywords = @ \o <<"instrumental", "lofi", "ambient">>,
                  !.targets = SetField(SetField(SetField(@, "energy", 35), "valence", 50),
                                       "tempo", Min2(GetOr(@, "tempo", 999), 100))]
RuleParty(s, st) ==
  IF ~IncludesAny(s, PartyWords) THEN st
  ELSE [st EXCEPT !.moodKey = "Energetic", !.energy = "high", !.tone = "celebratory",
                  !.keywords = @ \o <<"dance", "party">>,
                  !.targets = SetField(SetField(SetField(@, "valence", 80), "energy", 85),
                                       "tempo", Max2(GetOr(@, "tempo", 0), 120))]
RuleSad(s, st) ==
  IF ~IncludesAny(s, SadWords) THEN st
  ELSE [st EXCEPT !.moodKey = "Sad", !.tone = IF @ = "neutral" THEN "sad" ELSE @,
                  !.keywords = @ \o <<"piano", "acoustic">>,
                  !.targets = SetField(SetField(@, "valence", Min2(GetOr(@, "valence", 100), 25)),
                                       "energy", Min2(GetOr(@, "energy", 100), 45))]
\* exclamation marks plus intensifier words, from two on
RuleIntensity(s, st) ==
  LET n == Cardinality({i \in DOMAIN s : s[i] = "!" \/ s[i] \in IntensifierWords})
  IN IF n < 2 THEN st
     ELSE IF st.moodKey = "Sad"
       THEN [st EXCEPT !.targets = SetField(SetField(@, "energy", 30), "tempo", 75)]
     ELSE IF st.moodKey = "Energetic"
       THEN [st EXCEPT !.targets = SetField(SetField(@, "energy", 92), "tempo", 132)]
     ELSE st

\* extractVibeSignals with the sad rule tried before the party rule
extractVibeSignalsSadFirst(text, fallbackMood) ==
  LET s == Lower(text)
      st == RuleIntensity(s, RuleParty(s, RuleSad(s, RuleFocus(s, RuleAngry(s,
              RuleNostalgia(s, RuleHeartbreak(s, RuleRain(s, VibeStart(fallbackMood)))))))))
  IN [moodKey |-> st.moodKey, energy |-> st.energy, tone |-> st.tone,
      keywords |-> Take(Uniq(st.keywords), 8), targets |-> st.targets,
      rainy |-> Includes(st.contexts, "rainy")]
\* extractVibeSignals(text, fallbackMood); targets with no field is `undefined`
extractVibeSignals(text, fallbackMood) ==
  LET s == Lower(text)
      st == RuleIntensity(s, RuleSad(s, RuleParty(s, RuleFocus(s, RuleAngry(s,
              RuleNostalgia(s, RuleHeartbreak(s, RuleRain(s, VibeStart(fallbackMood)))))))))
  IN [moodKey |-> st.moodKey, energy |-> st.energy, tone |-> st.tone,
      keywords |-> Take(Uniq(st.keywords), 8), targets |-> st.targets,
      rainy |-> Includes(st.contexts, "rainy")]

\* a pre-classification that tries the sad words first and counts "day" among them
PreClassifySadFirst(prompt) ==
  LET p == Lower(prompt)
  IN IF IncludesAny(p, {"sad", "melancholy", "blue", "cry", "ballad", "day"}) THEN "Sad"
     ELSE IF IncludesAny(p, {"rain", "calm", "lofi", "cozy", "chill", "ambient"}) THEN "Chill"
     ELSE "Happy"
\* the keyword pre-classification of POST when the request has a prompt and no mood
PreClassify(prompt) ==
  LET p == Lower(prompt)
  IN IF IncludesAny(p, {"rain", "calm", "lofi", "cozy", "chill", "ambient"}) THEN "Chill"
     ELSE IF IncludesAny(p, {"sad", "melancholy", "blue", "cry", "ballad"}) THEN "Sad"
     ELSE IF IncludesAny(p, {"love", "romance", "date", "heart"}) THEN "Romantic"
     ELSE IF IncludesAny(p, {"study", "focus", "work", "deep", "instrumental"}) THEN "Focus"
     ELSE IF IncludesAny(p, {"party", "upbeat", "club", "energy", "energetic", "edm", "rock",
                             "dance"}) THEN "Energetic"
     ELSE "Happy"

(***************************************************************************)
(* Language classifiers                                                    *)
(***************************************************************************)
\* the words the catalogs of the model use as track titles: a letter and two digits
TitleWords ==
  <<"t01", "t02", "t03", "t04", "t05", "t06", "t07", "t08", "t09", "t10", "t11", "t12",
    "t13", "t14", "t15", "t16", "t17", "t18", "t19", "t20", "t21", "t22", "t23", "t24",
    "t25", "t26", "t27", "t28", "t29", "t30", "t31", "t32", "t33", "t34", "t35", "t36",
    "t37", "t38", "t39", "t40">>
\* words written in Arabic script (U+0600..U+06FF) and words without any letter
ArabicScriptWords == {"<arabic-script:dil>", "<arabic-script:ishq>"}
LetterlessWords == {" ", ", ", "@@", "007"}
\* the number of [A-Za-z] and of [U+0600-U+06FF] characters of a word
LatinLetters(w) ==
  IF w \in ArabicScriptWords \cup LetterlessWords THEN 0
  ELSE IF w \in Range(TitleWords) \cup {"T01", "m01"} THEN 1 ELSE 2
ArabicLetters(w) == IF w \in ArabicScriptWords THEN 3 ELSE 0
SumOver(s, F(_)) ==
  LET f[i \in 0..Len(s)] == IF i = 0 THEN 0 ELSE f[i - 1] + F(s[i])
  IN f[Len(s)]

\* `${title} ${artist}`
Hay(title, artist) == Tpl(title) \o <<" ">> \o Tpl(artist)

SouthAsianGenreTerms ==
  {"urdu", "pakistan", "pakistani", "qawwali", "ghazal", "coke studio", "punjabi",
   "bollywood", "hindi", "hindustani", "desi", "sufi"}
hasSouthAsianGenre(genres) == IncludesAny(Lower(genres), SouthAsianGenreTerms)

EnglishBlockTerms ==
  {"quran", "surah", "ayat", "azan", "adhaan", "nasheed", "dua", "supplication", "islam",
   "islamic", "qari", "qawwali", "ghazal", "hamd", "naat"}
UrduTextTerms == {"qawwali", "ghazal", "coke studio", "pakistan", "urdu"}

isEnglishStrict(title, artist, artistGenres) ==
  LET hay == Hay(title, artist)
      latinCount == SumOver(hay, LatinLetters)
      arabicCount == SumOver(hay, ArabicLetters)
      total == latinCount + arabicCount
  IN IF IncludesAny(Lower(hay), EnglishBlockTerms) THEN FALSE
     ELSE IF hasSouthAsianGenre(artistGenres) THEN FALSE
     ELSE IF total = 0 THEN FALSE
     ELSE IF arabicCount > 0 THEN FALSE
     ELSE 10 * latinCount >= 7 * total

isUrduStrict(title, artist, artistGenres) ==
  LET hay == Hay(title, artist)
  IN IF SumOver(hay, ArabicLetters) > 0 THEN TRUE
     ELSE IF hasSouthAsianGenre(artistGenres) THEN TRUE
     ELSE IncludesAny(Lower(hay), UrduTextTerms)

\* the language test of POST's filter and of scoreByFormula
LanguageAccepts(lang, title, artist, gens) ==
  IF lang = "any" THEN TRUE
  ELSE IF lang = "english" THEN isEnglishStrict(title, artist, gens)
  ELSE isUrduStrict(title, artist, gens)

(***************************************************************************)
(* Scorer & ranker: scoreByFormula                                         *)
(***************************************************************************)
\* an empty TasteProfile (no user credential)
EmptyTaste ==
  [artistNames |-> << >>, artistIds |-> {}, genres |-> << >>, tags |-> << >>,
   topTrackIds |-> {}, savedTrackIds |-> {}, recentTrackIds |-> {}]

\* t = { valence: customTargets?.valence ?? base.valence, ... }
ResolveTargets(mood, customTargets) ==
  LET base == getMoodTargets(mood)
  IN [k \in DOMAIN customTargets \cup DOMAIN base |->
        IF k \in DOMAIN customTargets THEN customTargets[k] ELSE base[k]]

\* getGenres(tr): the genres of the track's artists, in order
GenresOf(tr, artistGenresMap) ==
  LET G(id) == IF id \in DOMAIN artistGenresMap THEN artistGenresMap[id] ELSE << >>
  IN FlatMap(tr.artistIds, G)

\* mood_match in 1/30000: 0.5 without features, else clamp01(1 - dist) with
\* dist = 0.35 dv + 0.35 de + 0.2 dd + 0.1 dtempo, a missing feature counting 0.6
\* (valence, energy, danceability) or 1.0 (tempo, |delta| / 60 otherwise)
MoodMatch(tr, features, t) ==
  IF tr.spotifyId = "" \/ tr.spotifyId \notin DOMAIN features THEN 15000
  ELSE LET f == features[tr.spotifyId]
           D(k) == IF k \in DOMAIN f THEN Abs(f[k] - GetOr(t, k, 60)) ELSE 60
           dtempo50 == IF "tempo" \in DOMAIN f /\ GetOr(t, "tempo", 0) # 0
                         THEN 50 * Abs(f["tempo"] - t["tempo"]) ELSE 3000
           dist == 105 * D("valence") + 105 * D("energy") + 60 * D("danceability") + dtempo50
       IN Max2(0, Min2(30000, 30000 - dist))

\* the library tier and the artist affinity, in hundredths
InLib(tr, taste) ==
  IF tr.spotifyId = "" THEN 0
  ELSE IF tr.spotifyId \in taste.topTrackIds THEN 100
  ELSE IF tr.spotifyId \in taste.savedTrackIds THEN 90
  ELSE IF tr.spotifyId \in taste.recentTrackIds THEN 70 ELSE 0
ArtistAff(tr, taste) ==
  IF tr.primaryArtistId # "" /\ tr.primaryArtistId \in taste.artistIds THEN 100
  ELSE IF \E i \in DOMAIN tr.artistIds : tr.artistIds[i] \in taste.artistIds THEN 70 ELSE 0

\* one iteration of the loop of scoreByFormula: the Scored entry of a track.
\* Sub-scores are fractions: tasteMatch = tasteN / (10000 glen), moodMatch = moodN / 30000,
\* score = n / d with d = 300000 glen
ScoreTrack(tr, features, taste, t, lang, artistGenresMap) ==
  LET g == Lower(GenresOf(tr, artistGenresMap))
      tasteGenresSet == Range(Lower(taste.genres))
      overlap == Cardinality({i \in DOMAIN g : g[i] \in tasteGenresSet})
      glen == IF Len(g) = 0 THEN 1 ELSE Len(g)
      tasteN == Max2(0, Min2(10000 * glen,
                  50 * InLib(tr, taste) * glen + 30 * ArtistAff(tr, taste) * glen + 2000 * overlap))
      moodN == MoodMatch(tr, features, t)
      langMatch == IF lang = "any" THEN 1
                   ELSE IF LanguageAccepts(lang, tr.title, tr.artist, g) THEN 1 ELSE 0
  IN [tr |-> tr, tasteN |-> tasteN, glen |-> glen, moodN |-> moodN, langMatch |-> langMatch,
      n |-> 15 * tasteN + 4 * moodN * glen + 30000 * glen * langMatch, d |-> 300000 * glen]

\* an iteration that keeps moodMatch from the previous track when this one has no features
ScoreStepCarry(acc, tr, features, taste, t, lang, artistGenresMap) ==
  LET s == ScoreTrack(tr, features, taste, t, lang, artistGenresMap)
      moodN == IF acc # << >> /\ (tr.spotifyId = "" \/ tr.spotifyId \notin DOMAIN features)
                 THEN acc[Len(acc)].moodN ELSE s.moodN
  IN Append(acc, [s EXCEPT !.moodN = moodN,
                           !.n = 15 * s.tasteN + 4 * moodN * s.glen
                                   + 30000 * s.glen * s.langMatch])
\* one iteration of the loop: out.push({ tr, score: final })
ScoreStep(acc, tr, features, taste, t, lang, artistGenresMap) ==
  Append(acc, ScoreTrack(tr, features, taste, t, lang, artistGenresMap))

\* a comparator that sorts by increasing score
ScoreBeforeAscending(a, b) == a.n * b.glen < b.n * a.glen
\* out.sort((a, b) => b.score - a.score): a.n / a.d > b.n / b.d, with d = 300000 glen
ScoreBefore(a, b) == a.n * b.glen > b.n * a.glen
ScoredOut(tracks, features, taste, mood, lang, artistGenresMap, customTargets) ==
  LET t == ResolveTargets(mood, customTargets)
      f[i \in 0..Len(tracks)] ==
        IF i = 0 THEN << >>
        ELSE ScoreStep(f[i - 1], tracks[i], features, taste, t, lang, artistGenresMap)
  IN StableSort(f[Len(tracks)], ScoreBefore)
scoreByFormula(tracks, features, taste, mood, lang, artistGenresMap, customTargets) ==
  LET out == ScoredOut(tracks, features, taste, mood, lang, artistGenresMap, customTargets)
  IN [i \in DOMAIN out |-> out[i].tr]

(***************************************************************************)
(* Candidate mapping, merging and combining                                *)
(***************************************************************************)
\* the deduplication key `${t.title}@@${t.artist}` of POST and of the combiner
KeyOf(t) == Tpl(t.title) \o <<"@@">> \o Tpl(t.artist)
\* the identity of the data model: (title, artist), trimmed and lower-cased
NormKey(t) == <<Lower(Trim(OrEmpty(t.title))), Lower(Trim(OrEmpty(t.artist)))>>

\* the names and the ids of a catalog item's artists
ArtistNamesOf(n) == [i \in DOMAIN n.artists |-> n.artists[i].name]
ArtistIdsOf(n) ==
  LET ids == [i \in DOMAIN n.artists |-> n.artists[i].id]
  IN SelectSeq(ids, LAMBDA x : x # "")
SpotifyUrlOf(n) == IF n.id = "" THEN << >> ELSE <<"https://open.spotify.com/track/", n.id>>

\* the Track built from a catalog item by searchTracks (title: t.name)
TrackOfItem(n) ==
  [title |-> n.name, artist |-> JoinNames(ArtistNamesOf(n)), previewUrl |-> n.preview,
   spotifyUrl |-> SpotifyUrlOf(n), spotifyId |-> n.id, artistIds |-> ArtistIdsOf(n),
   primaryArtistId |-> IF n.artists = << >> THEN "" ELSE n.artists[1].id,
   matchReason |-> ""]
\* ... by scoreAndMapCandidates (String(n?.name || "")) and by
\* fetchRecommendationsWithSeeds and fetchArtistsTopTracks (t?.name ?? "")
TrackOfItemOrEmpty(n) == [TrackOfItem(n) EXCEPT !.title = OrEmpty(n.name)]

buildMatchReason(artistNames, hay, kw, tasteGenres) ==
  LET r1 == IF artistNames # << >> THEN <<"similar to your artists">> ELSE << >>
      r2 == IF \E i \in DOMAIN kw : Includes(hay, kw[i])
              THEN <<"fits the mood keywords">> ELSE << >>
      r3 == IF \E g \in tasteGenres : Includes(hay, g)
              THEN <<"matches your genres">> ELSE << >>
      reasons == r1 \o r2 \o r3
  IN IF reasons = << >> THEN "discovery for your mood"
     ELSE IF Len(reasons) = 1 THEN reasons[1]
     ELSE IF Len(reasons) = 2 THEN reasons[1] \o ", " \o reasons[2]
     ELSE reasons[1] \o ", " \o reasons[2] \o ", " \o reasons[3]

\* first occurrences by key (the `seen` set of a mapping loop)
FirstByKey(xs, keys) ==
  SelectSeq([i \in DOMAIN xs |->
                  [x |-> xs[i], first |-> \A j \in 1..(i - 1) : keys[j] # keys[i]]],
            LAMBDA e : e.first)

\* scoreAndMapCandidates(items, taste, moodKey, contextKeywords)
scoreAndMapCandidates(items, taste, moodKey, contextKeywords) ==
  LET kw == Lower(MoodKeywords(moodKey))
      tasteGenres == Range(Lower(taste.genres))
      tasteArtists == {Lower(taste.artistNames[i]) : i \in DOMAIN taste.artistNames}
      ctx == Lower(contextKeywords)
      keyOf(n) == Tpl(n.name) \o <<"@@">> \o JoinNames(ArtistNamesOf(n))
      kept == FirstByKey(items, [i \in DOMAIN items |-> keyOf(items[i])])
      Entry(n) ==
        LET title == OrEmpty(n.name)
            artistNames == ArtistNamesOf(n)
            hay == Lower(title \o <<" ">> \o n.album)
            hits == Cardinality({i \in DOMAIN ctx : ctx[i] # "" /\ Includes(hay, ctx[i])})
            sc == (IF \E i \in DOMAIN artistNames : Lower(OrEmpty(artistNames[i])) \in tasteArtists
                     THEN 1 ELSE 0)
                  + (IF \E i \in DOMAIN kw : Includes(hay, kw[i]) THEN 2 ELSE 0)
                  + (IF \E g \in tasteGenres : Includes(hay, g) THEN 1 ELSE 0)
                  + Min2(3, hits)
                  + (IF n.recent THEN 1 ELSE 0)
        IN [t |-> [TrackOfItemOrEmpty(n) EXCEPT
                     !.matchReason = buildMatchReason(artistNames, hay, kw, tasteGenres)],
            score |-> sc, pop |-> n.popularity]
      tracks == [i \in DOMAIN kept |-> Entry(kept[i].x)]
      Before(a, b) == a.score > b.score \/ (a.score = b.score /\ a.pop > b.pop)
      sorted == StableSort(tracks, Before)
  IN [i \in DOMAIN sorted |-> sorted[i].t]

\* for (const t of items) { if (seen.has(key)) continue; seen.add(key); results.push(t);
\*                          if (results.length >= limit) break; }
AppendUnseen(results, seen, items, limit) ==
  LET f[i \in 0..Len(items)] ==
        IF i = 0 THEN [results |-> results, seen |-> seen, stop |-> FALSE]
        ELSE LET p == f[i - 1]
                 k == KeyOf(items[i])
             IN IF p.stop \/ k \in p.seen THEN p
                ELSE [results |-> Append(p.results, items[i]), seen |-> p.seen \cup {k},
                      stop |-> Len(p.results) + 1 >= limit]
  IN f[Len(items)]

\* the Fisher-Yates loop of combinePersonalAndMoodTracks; r is the value of
\* Math.random() in hundredths, Pick(i) is Math.floor(r * (i + 1)) at index i (from 0)
Shuffle(out, r) ==
  LET n == Len(out)
      Pick(i) == (r * (i + 1)) \div 100
      Swap(a, i, j) == [a EXCEPT ![i + 1] = a[j + 1], ![j + 1] = a[i + 1]]
      \* f[k]: the array after the steps i = n-1, ..., n-k
      f[k \in 0..Max2(0, n - 1)] == IF k = 0 THEN out ELSE Swap(f[k - 1], n - k, Pick(n - k))
  IN f[Max2(0, n - 1)]

\* combinePersonalAndMoodTracks(personal, moodTracks, excludeKeys, total): the merge loop
\* returns as soon as `total` tracks are collected, before the shuffle
combinePersonalAndMoodTracks(personal, moodTracks, excludeKeys, total, r) ==
  LET m == AppendUnseen(<< >>, excludeKeys, personal \o moodTracks, total)
  IN IF m.stop THEN m.results ELSE Shuffle(m.results, r)

(***************************************************************************)
(* The external services: what the catalogs hold                           *)
(***************************************************************************)
\* program constants of POST and of the helpers it calls
ResultsCap == 25
MappedCap == 20
LowResults == 10
LangPadCap == 15
MinSlice == 10
MaxSlice == 15
LimitEach == 8
CapTotal == 100
LangCapTotal == 60
CombineTotal == 25
\* bounds of the model
MaxQueries == 3
MaxMB == 2

TrackIds ==
  <<"id01", "id02", "id03", "id04", "id05", "id06", "id07", "id08", "id09", "id10", "id11",
    "id12", "id13", "id14", "id15", "id16", "id17", "id18", "id19", "id20", "id21", "id22",
    "id23", "id24", "id25", "id26", "id27", "id28", "id29", "id30", "id31", "id32", "id33",
    "id34", "id35", "id36", "id37", "id38", "id39", "id40">>
ArtistA == [id |-> "arA", name |-> <<"aa">>]
ArtistB == [id |-> "arB", name |-> <<"bb">>]
ArtistQ == [id |-> "arQ", name |-> <<"Qawwali", " ", "aa">>]
\* the i-th ordinary track of the catalog
Item(i) ==
  [id |-> TrackIds[i], name |-> <<TitleWords[i]>>,
   artists |-> <<IF i % 2 = 1 THEN ArtistA ELSE ArtistB>>, album |-> << >>,
   recent |-> (i % 3 = 0), popularity |-> 10 * (i % 4), preview |-> (i % 2 = 0)]
\* the k-th page of ordinary tracks: `limit` items
FreshPage(k) == [j \in 1..LimitEach |-> Item(Min2(Len(TitleWords), LimitEach * (k - 1) + j))]
\* a page of unusual items: a re-release of track 1 under another id, the same with the
\* title in capitals, an item without a name, an item without artists, a track whose
\* title is in Arabic script
ExactDup == [Item(1) EXCEPT !.id = "idx1"]
CaseDup == [Item(1) EXCEPT !.id = "idx2", !.name = <<"T01">>]
NoNameItem == [Item(3) EXCEPT !.id = "idx3", !.name = UNDEFINED]
NoArtistsItem == [Item(2) EXCEPT !.id = "idx4", !.artists = << >>]
UrduItem == [Item(4) EXCEPT !.id = "idx5", !.name = <<"<arabic-script:dil>">>,
                            !.artists = <<ArtistQ>>]
SpecialPage == <<Item(1), ExactDup, CaseDup, NoNameItem, NoArtistsItem, UrduItem>>

\* GET /v1/artists: the genres of each artist
CatalogGenres ==
  [id \in {"arA", "arB", "arQ"} |->
     CASE id = "arA" -> <<"pop">> [] id = "arB" -> <<"rock">> [] OTHER -> <<"qawwali">>]

\* MusicBrainz recordings as the service returns them
MBUniverse ==
  <<[id |-> <<"mb1">>, title |-> <<"T01">>, artist |-> <<"aa">>],
    [id |-> <<"mb2">>, title |-> <<" ", "m01">>, artist |-> <<"bb">>],
    [id |-> <<"mb4">>, title |-> <<" ">>, artist |-> <<"aa">>],
    [id |-> <<"mb3">>, title |-> <<"t02">>, artist |-> <<"bb">>]>>
\* the recordings fetchMusicBrainzByTag keeps: trimmed title, artist and id, none empty
MBParse(recs) ==
  LET T(r) == [id |-> Trim(r.id), title |-> Trim(r.title), artist |-> Trim(r.artist)]
      all == [i \in DOMAIN recs |-> T(recs[i])]
  IN SelectSeq(all, LAMBDA r : r.title # << >> /\ r.artist # << >> /\ r.id # << >>)
\* the answers the recording search may give: the first recordings, up to MaxMB
MBAnswers == {Take(MBUniverse, n) : n \in 1..MaxMB}
\* GET /1/recording/{mbid} of ListenBrainz: the listen count it holds
LBPopularity(id) == IF id = <<"mb2">> THEN 7 ELSE 0

\* the Track POST builds from a MusicBrainz recording that searchSpotifySingle found
TrackOfRecording(r) ==
  [title |-> r.title, artist |-> r.artist, previewUrl |-> FALSE,
   spotifyUrl |-> <<"https://open.spotify.com/track/", "mapped">>, spotifyId |-> "",
   artistIds |-> << >>, primaryArtistId |-> "", matchReason |-> ""]

\* the tags MusicBrainz holds for an artist name (lower-cased)
ArtistTagsWorld(name) == IF name = <<"bb">> THEN <<"upbeat", "rock">> ELSE << >>

\* Array.from(new Set(tracks.flatMap((t) => t.artistIds || [])))
AllArtistIds(tracks) == Range(FlatMap(tracks, LAMBDA t : t.artistIds))
\* fetchArtistsGenres: the map of the artists the catalog knows; empty when the call fails
ArtistsGenres(ids, ok) ==
  IF ok THEN [id \in ids \cap DOMAIN CatalogGenres |-> CatalogGenres[id]] ELSE EmptyObj

\* GET /v1/audio-features: what the catalog holds for a track id
TrackIndex(id) == CHOOSE i \in DOMAIN TrackIds : TrackIds[i] = id
FeatureWorld(id) ==
  LET i == TrackIndex(id)
      all == [k \in {"valence", "energy", "danceability", "tempo"} |->
                CASE k = "valence" -> (37 * i) % 101
                  [] k = "energy" -> (53 * i) % 101
                  [] k = "danceability" -> (71 * i) % 101
                  [] OTHER -> 60 + ((7 * i) % 100)]
  IN IF i % 5 = 0 THEN [k \in {"valence", "energy", "danceability"} |-> all[k]]
     ELSE IF i % 5 = 1 THEN [k \in {"energy", "tempo"} |-> all[k]]
     ELSE all
\* fetchAudioFeatures: entries for the ids the catalog answers for; none when the call fails
AudioFeaturesOf(ids, ok) ==
  IF ok THEN [id \in {x \in ids \cap Range(TrackIds) : TrackIndex(x) % 7 # 0} |-> FeatureWorld(id)]
  ELSE EmptyObj
\* Array.from(new Set(list.map((t) => t.spotifyId).filter(Boolean)))
SpotifyIdsOf(tracks) == {tracks[i].spotifyId : i \in DOMAIN tracks} \ {""}

(***************************************************************************)
(* The logged-in user: library, personal seeds, anchors, taste profile     *)
(***************************************************************************)
\* what the catalog holds for the user of the model
UserTopArtists == <<[id |-> "arA", name |-> <<"aa">>, genres |-> <<"Pop">>]>>
UserTopTrackIds == <<"id01">>
UserSavedTrackIds == <<"id02">>
UserRecentTrackIds == <<"id03">>
\* GET /v1/artists/{id}/top-tracks, /v1/artists/{id}/related-artists, /v1/recommendations
ArtistTopTracksWorld(id) == IF id = "arA" THEN <<Item(1), Item(9), Item(17)>> ELSE << >>
RelatedWorld(id) == IF id = "arA" THEN <<"arB", "arQ">> ELSE << >>
RecsWorld == <<Item(10), Item(9)>>
Recs2World == <<Item(38), Item(37), Item(35)>>

\* fetchPersonalSeeds: null when /v1/me fails or anything throws
fetchPersonalSeeds(o) ==
  IF o # "ok" THEN << >>
  ELSE <<[topArtistIds |-> [i \in DOMAIN UserTopArtists |-> UserTopArtists[i].id],
          topArtistNames |-> [i \in DOMAIN UserTopArtists |-> UserTopArtists[i].name],
          topTrackIds |-> UserTopTrackIds, recentTrackIds |-> UserRecentTrackIds]>>

\* fetchArtistsTopTracks(userToken, artistIds, market, perArtist, cap)
fetchArtistsTopTracks(artistIds, ok, perArtist, cap) ==
  LET keyOf(n) == Tpl(n.name) \o <<"@@">> \o JoinNames(ArtistNamesOf(n))
      OneArtist(acc, tracks) ==
        LET g[j \in 0..Len(tracks)] ==
              IF j = 0 THEN [out |-> acc.out, seen |-> acc.seen, added |-> 0, stop |-> FALSE]
              ELSE LET q == g[j - 1]
                       k == keyOf(tracks[j])
                   IN IF q.stop \/ k \in q.seen THEN q
                      ELSE [out |-> Append(q.out, TrackOfItemOrEmpty(tracks[j])),
                            seen |-> q.seen \cup {k}, added |-> q.added + 1,
                            stop |-> q.added + 1 >= perArtist \/ Len(q.out) + 1 >= cap]
        IN [out |-> g[Len(tracks)].out, seen |-> g[Len(tracks)].seen]
      f[i \in 0..Len(artistIds)] ==
        IF i = 0 THEN [out |-> << >>, seen |-> {}]
        ELSE IF Len(f[i - 1].out) >= cap \/ ~ok THEN f[i - 1]
        ELSE OneArtist(f[i - 1], ArtistTopTracksWorld(artistIds[i]))
  IN f[Len(artistIds)].out

\* fetchRecommendationsWithSeeds: throws when the network fails, [] on a non-2xx answer
fetchRecommendationsWithSeeds(o, items) ==
  IF o = "throw" THEN [error |-> TRUE, tracks |-> << >>]
  ELSE IF o = "non2xx" THEN [error |-> FALSE, tracks |-> << >>]
  ELSE [error |-> FALSE, tracks |-> [i \in DOMAIN items |-> TrackOfItemOrEmpty(items[i])]]

\* fetchRelatedArtists(bearer, artistIds, cap)
fetchRelatedArtists(artistIds, ok, cap) ==
  IF ok THEN Take(Uniq(SelectSeq(FlatMap(artistIds, RelatedWorld), LAMBDA a : a # "")), cap)
  ELSE << >>

\* passesHardForMood(mood, f): a rule needs its features to be numbers
passesHardForMood(mood, f) ==
  LET has(k) == k \in DOMAIN f
      key == LowerWord(mood)
  IN CASE key = "happy" -> /\ has("valence") /\ has("energy") /\ has("tempo")
                            /\ f["valence"] >= 60 /\ f["energy"] >= 50 /\ f["tempo"] >= 100
       [] key = "sad" -> /\ has("valence") /\ has("energy") /\ has("tempo")
                          /\ f["valence"] <= 40 /\ f["energy"] <= 60 /\ f["tempo"] <= 110
       [] key = "chill" -> has("energy") /\ has("tempo") /\ f["energy"] <= 55 /\ f["tempo"] <= 105
       [] key = "energetic" ->
            has("energy") /\ has("tempo") /\ f["energy"] >= 75 /\ f["tempo"] >= 118
       [] key = "romantic" -> /\ has("valence") /\ has("energy")
                               /\ f["valence"] >= 50 /\ f["valence"] <= 85 /\ f["energy"] <= 65
       [] key = "focus" -> /\ has("energy") /\ has("tempo")
                            /\ f["energy"] <= 50 /\ f["tempo"] >= 60 /\ f["tempo"] <= 110
       [] OTHER -> TRUE

\* Map<string, number> sorted by count (descending), the first n keys
TopByCount(words, n) ==
  LET keys == Uniq(words)
      counted == [i \in DOMAIN keys |->
                    [k |-> keys[i], c |-> Cardinality({j \in DOMAIN words : words[j] = keys[i]})]]
      sorted == StableSort(counted, LAMBDA a, b : a.c > b.c)
  IN [i \in DOMAIN Take(sorted, n) |-> sorted[i].k]

\* assessMoodCoverage: the anchors that pass the hard rule (ok) out of all (n)
assessMoodCoverageWith(tracks, mood, feats) ==
  LET Passes(t) == /\ t.spotifyId \in DOMAIN feats
                   /\ passesHardForMood(mood, feats[t.spotifyId])
  IN IF tracks = << >> THEN [ok |-> 1, n |-> 1]
     ELSE IF SpotifyIdsOf(tracks) = {} THEN [ok |-> 0, n |-> 1]
     ELSE [ok |-> Cardinality({i \in DOMAIN tracks : Passes(tracks[i])}), n |-> Len(tracks)]
assessMoodCoverage(tracks, mood, fok) ==
  assessMoodCoverageWith(tracks, mood, AudioFeaturesOf(SpotifyIdsOf(tracks), fok))

\* the anchor block of POST: top tracks of the user's artists, recommendations, and the
\* expansion by related artists when less than 35% of the anchors fit the mood
CoverageMin == 35
\* coverage < 0.35 && (personal.topArtistIds?.length || 0) > 0
CoverageLow(cov, topArtistIds) == 100 * cov.ok < CoverageMin * cov.n /\ topArtistIds # << >>
\* the block on the answers it got: the candidates, whether coverage was assessed
\* (the recommendations call did not throw) and whether fetchRelatedArtists was called
AnchorBlock(topArtistIds, mood, viaArtists, recs, feats, related, recs2, feats2) ==
  LET base == viaArtists \o recs.tracks
      cov == assessMoodCoverageWith(base, mood, feats)
      strictRecs == SelectSeq(recs2.tracks,
                              LAMBDA t : t.spotifyId \in DOMAIN feats2
                                           => passesHardForMood(mood, feats2[t.spotifyId]))
  IN IF recs.error
       THEN [candidates |-> viaArtists, before |-> viaArtists, assessed |-> FALSE,
             expanded |-> FALSE]
     ELSE [candidates |-> IF CoverageLow(cov, topArtistIds) /\ related # << >> /\ ~recs2.error
                            THEN base \o strictRecs ELSE base,
           before |-> base, assessed |-> TRUE, expanded |-> CoverageLow(cov, topArtistIds)]
Anchors(p, mood, via, rec, rel, rec2, fok) ==
  LET viaArtists == IF p.topArtistIds = << >> THEN << >>
                    ELSE fetchArtistsTopTracks(Take(p.topArtistIds, 6), via, 2, 10)
      recs == fetchRecommendationsWithSeeds(rec, RecsWorld)
      recs2 == fetchRecommendationsWithSeeds(rec2, Recs2World)
  IN AnchorBlock(p.topArtistIds, mood, viaArtists, recs,
                 AudioFeaturesOf(SpotifyIdsOf(viaArtists \o recs.tracks), fok),
                 fetchRelatedArtists(Take(p.topArtistIds, 8), rel, 20), recs2,
                 AudioFeaturesOf(SpotifyIdsOf(recs2.tracks), fok)).candidates

\* buildTasteProfile(userToken): the four library fetches run under Promise.all, so one
\* that throws rejects the whole call; a non-2xx answer counts as an empty list
TasteTop == 12
\* a profile builder that reads a library whether or not a user token is given
buildTasteProfileAnyUser(user, o) ==
  IF o = "throw" THEN [error |-> "fetch failed", taste |-> EmptyTaste]
  ELSE [error |-> "",
        taste |-> [EmptyTaste EXCEPT !.artistIds = {UserTopArtists[i].id : i \in DOMAIN UserTopArtists},
                                     !.topTrackIds = Range(UserTopTrackIds)]]
\* the four history fetches of buildTasteProfile, each with its own outcome:
\* "ok", "non2xx" (the fetcher returns []) or "throw" (fetchWithRetry gave up)
TasteSources == {"artists", "tracks", "saved", "recent"}
SourceOutcomes == {"ok", "non2xx", "throw"}
\* fetchUserTopArtists, fetchUserTopTracks, fetchUserSavedTracks, fetchUserRecentlyPlayed
fetchUserTopArtists(o) ==
  IF o = "ok" THEN SelectSeq(UserTopArtists, LAMBDA a : a.id # "" /\ a.name # << >>) ELSE << >>
fetchUserTopTracks(o) == IF o = "ok" THEN UserTopTrackIds ELSE << >>
fetchUserSavedTracks(o) == IF o = "ok" THEN UserSavedTrackIds ELSE << >>
fetchUserRecentlyPlayed(o) == IF o = "ok" THEN UserRecentTrackIds ELSE << >>
\* the body of `if (userToken) { ... }`: Promise.all rejects when one fetcher rejects
buildTasteProfileTolerant(outs) ==
  LET artists == fetchUserTopArtists(outs.artists)
      names == [i \in DOMAIN artists |-> artists[i].name]
      tagged == FlatMap(Take(names, 8), LAMBDA n : Lower(ArtistTagsWorld(n)))
  IN [error |-> "",
      taste |-> [artistNames |-> names,
                 artistIds |-> {artists[i].id : i \in DOMAIN artists},
                 genres |-> TopByCount(Lower(FlatMap(artists, LAMBDA a : a.genres)), TasteTop),
                 tags |-> TopByCount(tagged, TasteTop),
                 topTrackIds |-> Range(fetchUserTopTracks(outs.tracks)),
                 savedTrackIds |-> Range(fetchUserSavedTracks(outs.saved)),
                 recentTrackIds |-> Range(fetchUserRecentlyPlayed(outs.recent))]]
buildTasteProfileFrom(outs) ==
  IF \E s \in TasteSources : outs[s] = "throw"
  THEN [error |-> "fetch failed", taste |-> EmptyTaste]
  ELSE buildTasteProfileTolerant(outs)
buildTasteProfile(user, o) ==
  IF ~user THEN [error |-> "", taste |-> EmptyTaste]
  ELSE buildTasteProfileFrom([s \in TasteSources |-> o])

(***************************************************************************)
(* POST /api/generatePlaylist: state                                       *)
(***************************************************************************)
VARIABLES
  pc,               \* the await the handler is suspended at
  req,              \* the request and the process environment
  token,            \* the application token ("" before it is acquired)
  calls,            \* the external services fetched so far
  allEmpty,         \* every catalog search so far answered 2xx with no item
  selectedMood,     \* selectedMood
  signals,          \* << >> (null) or <<VibeSignals>>
  personal,         \* << >> (null) or <<PersonalSeeds>>
  mb,               \* the MusicBrainz recordings
  scored,           \* mb with popularity, sorted
  anchorCandidates, \* anchorCandidates
  taste,            \* the TasteProfile
  qi,               \* searchSpotifyTracksMulti: queries issued
  rawOut,           \* searchSpotifyTracksMulti: out
  candidates,       \* candidates
  results,          \* results
  seen,             \* seen
  final,            \* final
  list,             \* list
  out,              \* the sorted Scored array of scoreByFormula
  response,         \* << >> or <<the JSON body sent>>
  client,           \* lib/playlist.ts: << >> or <<what the wrapper returned>>
  fr,               \* fetchWithRetry: << >> or <<the locals of one call>>
  sm,               \* searchSpotifyTracksMulti: << >> or <<the locals of one call>>
  rc,               \* runWithConcurrency: << >> or <<the locals of one call>>
  pcache,           \* PERSONAL_CACHE and the fetchPersonalSeeds calls in progress
  cmb,              \* combinePersonalAndMoodTracks: << >> or <<the locals of one call>>
  tasteCall,        \* buildTasteProfile: << >> or <<the locals of one call>>
  vibeCall,         \* extractVibeSignals: << >> or <<the locals of one call>>
  langCall,         \* isEnglishStrict/isUrduStrict: << >> or <<one classified track>>
  anchorCall        \* the anchor block of POST: << >> or <<the locals of one run>>

\* the state of POST and the state of the components modelled on their own
postVars == <<pc, req, token, calls, allEmpty, selectedMood, signals, personal, mb, scored,
              anchorCandidates, taste, qi, rawOut, candidates, results, seen, final, list, out,
              response>>
auxVars == <<client, fr, sm, rc, pcache, cmb, tasteCall, vibeCall, langCall, anchorCall>>
vars == <<postVars, auxVars>>
notClient == <<postVars, fr, sm, rc, pcache, cmb, tasteCall, vibeCall, langCall, anchorCall>>
notFetch == <<postVars, client, sm, rc, pcache, cmb, tasteCall, vibeCall, langCall, anchorCall>>
notSearch == <<postVars, client, fr, rc, pcache, cmb, tasteCall, vibeCall, langCall, anchorCall>>
notRun == <<postVars, client, fr, sm, pcache, cmb, tasteCall, vibeCall, langCall, anchorCall>>
notCache == <<postVars, client, fr, sm, rc, cmb, tasteCall, vibeCall, langCall, anchorCall>>
notCombine == <<postVars, client, fr, sm, rc, pcache, tasteCall, vibeCall, langCall, anchorCall>>
notTaste == <<postVars, client, fr, sm, rc, pcache, cmb, vibeCall, langCall, anchorCall>>
notVibe == <<postVars, client, fr, sm, rc, pcache, cmb, tasteCall, langCall, anchorCall>>
notLang == <<postVars, client, fr, sm, rc, pcache, cmb, tasteCall, vibeCall, anchorCall>>
notAnchor == <<postVars, client, fr, sm, rc, pcache, cmb, tasteCall, vibeCall, langCall>>
ClientIdle == client = << >>
FetchIdle == fr = << >>
SearchIdle == sm = << >>
RunIdle == rc = << >>
CacheIdle == pcache = << >>
CombineIdle == cmb = << >>
TasteIdle == tasteCall = << >>
VibeIdle == vibeCall = << >>
LangIdle == langCall = << >>
AnchorIdle == anchorCall = << >>
AuxInit ==
  /\ ClientIdle
  /\ FetchIdle
  /\ SearchIdle
  /\ RunIdle
  /\ CacheIdle
  /\ CombineIdle
  /\ TasteIdle
  /\ VibeIdle
  /\ LangIdle
  /\ AnchorIdle

\* the requests of the model
Languages == {"any", "english", "urdu"}
RequestMoods == {<<"Happy", << >> >>, <<"", <<"a", "rainy", "day">> >>}
Requests ==
  {r \in {[creds |-> c, lang |-> l, mood |-> m[1], prompt |-> m[2], user |-> u] :
            c \in BOOLEAN, l \in Languages, m \in RequestMoods, u \in BOOLEAN} :
     r.user => (r.creds /\ r.lang = "any" /\ r.mood = "Happy")}

Init ==
  /\ req \in Requests
  /\ pc = "token"
  /\ token = ""
  /\ calls = {}
  /\ allEmpty = TRUE
  /\ selectedMood = ""
  /\ signals = << >>
  /\ personal = << >>
  /\ mb = << >>
  /\ scored = << >>
  /\ anchorCandidates = << >>
  /\ taste = EmptyTaste
  /\ qi = 0
  /\ rawOut = << >>
  /\ candidates = << >>
  /\ results = << >>
  /\ seen = {}
  /\ final = << >>
  /\ list = << >>
  /\ out = << >>
  /\ response = << >>
  /\ AuxInit

\* a catch block that drops the message
FailBlank(msg) ==
  /\ response' = <<[ok |-> FALSE, error |-> "", tracks |-> << >>]>>
  /\ pc' = "done"
\* the catch block of POST: { ok: false, error: msg }
Fail(msg) ==
  /\ response' = <<[ok |-> FALSE, error |-> msg, tracks |-> << >>]>>
  /\ pc' = "done"

\* signals?.keywords and signals?.targets
SignalKeywords == IF signals = << >> THEN << >> ELSE signals[1].keywords
SignalTargets == IF signals = << >> THEN EmptyObj ELSE signals[1].targets

(***************************************************************************)
(* POST: token, mood, personal seeds                                       *)
(***************************************************************************)
\* selectedMood and signals as POST derives them from the payload
MoodOfRequest(r) ==
  LET sel0 == IF r.mood # "" THEN r.mood
              ELSE IF r.prompt # << >> THEN PreClassify(r.prompt) ELSE "Happy"
      sig == IF r.prompt # << >> THEN <<extractVibeSignals(r.prompt, sel0)>> ELSE << >>
  IN [signals |-> sig, mood |-> IF sig # << >> /\ sig[1].moodKey # "" THEN sig[1].moodKey ELSE sel0]

\* a token call that posts to the accounts service without checking the environment
getSpotifyTokenNoCheck(r, o) ==
  IF o = "ok" THEN [token |-> "app-token", fetched |-> TRUE, error |-> ""]
  ELSE IF o = "non2xx" THEN [token |-> "", fetched |-> TRUE, error |-> "Token failed: 400"]
  ELSE [token |-> "", fetched |-> TRUE, error |-> "fetch failed"]
\* getSpotifyToken: throws before any fetch when the client id or secret is missing
getSpotifyToken(r, o) ==
  IF ~r.creds
    THEN [token |-> "", fetched |-> FALSE, error |-> "Missing SPOTIFY_CLIENT_ID/SECRET in env"]
  ELSE IF o = "ok" THEN [token |-> "app-token", fetched |-> TRUE, error |-> ""]
  ELSE IF o = "non2xx" THEN [token |-> "", fetched |-> TRUE, error |-> "Token failed: 400"]
  ELSE [token |-> "", fetched |-> TRUE, error |-> "fetch failed"]

GetToken ==
  /\ pc = "token"
  /\ \E o \in {"ok", "non2xx", "throw"} :
       \E t \in {getSpotifyToken(req, o)}, m \in {MoodOfRequest(req)} :
          /\ calls' = IF t.fetched THEN calls \cup {"token"} ELSE calls
          /\ token' = t.token
          /\ IF t.error # ""
               THEN Fail(t.error) /\ UNCHANGED <<selectedMood, signals>>
               ELSE /\ selectedMood' = m.mood
                    /\ signals' = m.signals
                    /\ pc' = "personal"
                    /\ UNCHANGED response
  /\ UNCHANGED <<req, allEmpty, personal, mb, scored, anchorCandidates, taste, qi, rawOut,
                 candidates, results, seen, final, list, out>>
  /\ UNCHANGED auxVars

FetchPersonal ==
  /\ pc = "personal"
  /\ IF req.user
       THEN /\ \E o \in {"fail", "ok"} : personal' = fetchPersonalSeeds(o)
            /\ calls' = calls \cup {"me"}
       ELSE UNCHANGED <<personal, calls>>
  /\ pc' = "mb"
  /\ UNCHANGED <<req, token, allEmpty, selectedMood, signals, mb, scored,
                 anchorCandidates, taste, qi, rawOut, candidates, results, seen, final, list,
                 out, response>>
  /\ UNCHANGED auxVars

(***************************************************************************)
(* POST: MusicBrainz recordings and their popularity                       *)
(***************************************************************************)
\* fetchMusicBrainzByTag is awaited outside any try block of its own
FetchMusicBrainz ==
  /\ pc = "mb"
  /\ calls' = calls \cup {"musicbrainz"}
  /\ \/ Fail("fetch failed") /\ UNCHANGED mb
     \/ mb' = << >> /\ pc' = "pops" /\ UNCHANGED response
     \/ \E recs \in MBAnswers : mb' = MBParse(recs) /\ pc' = "pops" /\ UNCHANGED response
  /\ UNCHANGED <<req, token, allEmpty, selectedMood, signals, personal, scored,
                 anchorCandidates, taste, qi, rawOut, candidates, results, seen, final, list,
                 out>>
  /\ UNCHANGED auxVars

\* scored = mb with pops, sorted by popularity, then by the boost of the user's top artists
SortScored(recs, pops, topArtistNames) ==
  LET withPop == [i \in DOMAIN recs |->
                    [id |-> recs[i].id, title |-> recs[i].title, artist |-> recs[i].artist,
                     popularity |-> pops[i]]]
      byPop == StableSort(withPop, LAMBDA a, b : a.popularity > b.popularity)
      topSet == {Lower(topArtistNames[i]) : i \in DOMAIN topArtistNames}
      Boost(r) == IF Lower(r.artist) \in topSet THEN 1 ELSE 0
  IN IF topArtistNames = << >> THEN byPop
     ELSE StableSort(byPop, LAMBDA a, b : Boost(a) > Boost(b))

\* fetchListenBrainzRecordingPopularity answers 0 when the service fails
FetchPopularity ==
  /\ pc = "pops"
  /\ calls' = IF mb = << >> THEN calls ELSE calls \cup {"listenbrainz"}
  /\ \E up \in BOOLEAN :
       scored' = SortScored(mb, [i \in DOMAIN mb |-> IF up THEN LBPopularity(mb[i].id) ELSE 0],
                            IF personal = << >> THEN << >> ELSE personal[1].topArtistNames)
  /\ pc' = "anchors"
  /\ UNCHANGED <<req, token, allEmpty, selectedMood, signals, personal, mb,
                 anchorCandidates, taste, qi, rawOut, candidates, results, seen, final, list,
                 out, response>>
  /\ UNCHANGED auxVars

(***************************************************************************)
(* POST: anchors, taste profile, candidate search                          *)
(***************************************************************************)
\* how the catalog answers the calls of the anchor block: top tracks, recommendations,
\* related artists, second recommendations, audio features
AnchorOutcomes ==
  {<<TRUE, "ok", TRUE, "ok", TRUE>>, <<TRUE, "throw", TRUE, "ok", TRUE>>,
   <<FALSE, "non2xx", TRUE, "ok", TRUE>>, <<TRUE, "ok", TRUE, "ok", FALSE>>,
   <<TRUE, "ok", FALSE, "ok", TRUE>>, <<TRUE, "ok", TRUE, "throw", TRUE>>}

FetchAnchors ==
  /\ pc = "anchors"
  /\ IF personal # << >> /\ req.user
       THEN /\ \E o \in AnchorOutcomes :
                 anchorCandidates' = Anchors(personal[1], selectedMood, o[1], o[2], o[3], o[4],
                                             o[5])
            /\ calls' = calls \cup {"anchors"}
       ELSE anchorCandidates' = << >> /\ UNCHANGED calls
  /\ pc' = "taste"
  /\ UNCHANGED <<req, token, allEmpty, selectedMood, signals, personal, mb, scored,
                 taste, qi, rawOut, candidates, results, seen, final, list, out, response>>
  /\ UNCHANGED auxVars

BuildTaste ==
  /\ pc = "taste"
  /\ \E o \in {"throw", "non2xx", "ok"} :
       \E b \in {buildTasteProfile(req.user, o)} :
          IF b.error # ""
            THEN Fail(b.error) /\ UNCHANGED taste
            ELSE taste' = b.taste /\ pc' = "search" /\ UNCHANGED response
  /\ calls' = IF req.user THEN calls \cup {"library"} ELSE calls
  /\ UNCHANGED <<req, token, allEmpty, selectedMood, signals, personal, mb, scored,
                 anchorCandidates, qi, rawOut, candidates, results, seen, final, list, out>>
  /\ UNCHANGED auxVars

\* a merge that pushes every new id of the answer, whatever the cap
MergeByIdUncapped(acc, items, capTotal) ==
  LET f[i \in 0..Len(items)] ==
        IF i = 0 THEN acc
        ELSE IF items[i].id = "" \/ \E j \in DOMAIN f[i - 1] : f[i - 1][j].id = items[i].id
               THEN f[i - 1]
             ELSE Append(f[i - 1], items[i])
  IN f[Len(items)]

\* the merge of one answer into `out` by catalog id, up to capTotal
MergeById(acc, items, capTotal) ==
  LET f[i \in 0..Len(items)] ==
        IF i = 0 THEN [acc |-> acc, stop |-> FALSE]
        ELSE LET p == f[i - 1]
                 id == items[i].id
             IN IF p.stop \/ id = "" \/ \E j \in DOMAIN p.acc : p.acc[j].id = id THEN p
                ELSE [acc |-> Append(p.acc, items[i]), stop |-> Len(p.acc) + 1 >= capTotal]
  IN f[Len(items)].acc

\* the answer of the catalog search to one query, by outcome
PagesIn(acc) ==
  Cardinality({k \in 1..(Len(TrackIds) \div LimitEach) :
                 \E j \in DOMAIN acc : acc[j].id = TrackIds[LimitEach * k]})
SearchAnswer(o, acc) ==
  IF o = "fresh" THEN FreshPage(PagesIn(acc) + 1)
  ELSE IF o = "special" THEN SpecialPage
  ELSE << >>
SearchOutcomes == {"throw", "non2xx", "empty", "fresh", "special"}

\* one turn of the loop of searchSpotifyTracksMulti: a failed or refused query is skipped.
\* Queries after the first MaxQueries are answered with an empty page.
SearchQuery ==
  /\ pc = "search"
  /\ qi < MaxQueries
  /\ Len(rawOut) < CapTotal
  /\ \E o \in SearchOutcomes :
       /\ rawOut' = MergeById(rawOut, SearchAnswer(o, rawOut), CapTotal)
       /\ allEmpty' = (allEmpty /\ o = "empty")
  /\ qi' = qi + 1
  /\ calls' = calls \cup {"search"}
  /\ UNCHANGED <<pc, req, token, selectedMood, signals, personal, mb, scored,
                 anchorCandidates, taste, candidates, results, seen, final, list, out,
                 response>>
  /\ UNCHANGED auxVars

\* merge of the anchors and the mapped candidates, first occurrence of each key
MergeCandidates(anchors, cands) == AppendUnseen(<< >>, {}, anchors \o cands, Len(anchors) + Len(cands) + 1).results

\* the user's top tracks are dropped unless title or artist holds a mood keyword
ExcludeTopTracks(cands, tp, mood) ==
  LET kw == Lower(MoodKeywords(mood))
      Keep(t) == \/ ~\E id \in tp.topTrackIds : EndsWith(t.spotifyUrl, id)
                 \/ \E i \in DOMAIN kw : Includes(Lower(Hay(t.title, t.artist)), kw[i])
  IN IF tp.topTrackIds = {} THEN cands ELSE SelectSeq(cands, Keep)

SearchDone ==
  /\ pc = "search"
  /\ qi >= MaxQueries \/ Len(rawOut) >= CapTotal
  /\ candidates' = ExcludeTopTracks(
                     MergeCandidates(anchorCandidates,
                                     scoreAndMapCandidates(rawOut, taste, selectedMood,
                                                           SignalKeywords)),
                     taste, selectedMood)
  /\ pc' = "tags"
  /\ UNCHANGED <<req, token, calls, allEmpty, selectedMood, signals, personal, mb, scored,
                 anchorCandidates, taste, qi, rawOut, results, seen, final, list, out,
                 response>>
  /\ UNCHANGED auxVars

(***************************************************************************)
(* POST: artist tags, weighted score, results                              *)
(***************************************************************************)
\* the primary artists of the candidates, first occurrences, empty names dropped
PrimaryArtists(cands) ==
  SelectSeq(Uniq([i \in DOMAIN cands |-> PrimaryArtistName(OrEmpty(cands[i].artist))]),
            LAMBDA nm : nm # << >>)

\* final = 0.6 moodScore + 0.4 tasteScore + 0.1 pop, in twentieths
PostScore(t, tagsOk, tp, mood) ==
  LET hay == Lower(Hay(t.title, t.artist))
      primary == Lower(PrimaryArtistName(OrEmpty(t.artist)))
      artistTags == IF primary # << >> /\ tagsOk THEN Lower(ArtistTagsWorld(primary)) ELSE << >>
      moodKw == Lower(MoodKeywords(mood))
      moodGenres == Range(Lower(MoodExampleGenres(mood)))
      moodTags == Range(moodKw) \cup moodGenres
      tasteGenres == Range(Lower(tp.genres))
      tasteArtists == {Lower(tp.artistNames[i]) : i \in DOMAIN tp.artistNames}
      tasteTags == Range(Lower(tp.tags))
      Count(S, P(_)) == Cardinality({x \in S : P(x)})
      TagHits(S) == Cardinality({i \in DOMAIN artistTags : artistTags[i] \in S})
      moodScore == Count(Range(moodKw), LAMBDA k : Includes(hay, k))
                   + Min2(2, Count(moodGenres, LAMBDA g : Includes(hay, g)))
                   + Min2(2, TagHits(moodTags))
      tasteScore == 2 * Count(tasteArtists, LAMBDA a : IncludesText(hay, a))
                    + Min2(2, Count(tasteGenres, LAMBDA g : Includes(hay, g)))
                    + Min2(2, TagHits(tasteTags))
  IN 12 * moodScore + 8 * tasteScore + (IF t.previewUrl THEN 1 ELSE 0)

\* the weighted sort and the first loop over the sorted candidates
FirstResults(cands, tagsOk, tp, mood) ==
  LET weighted == [i \in DOMAIN cands |->
                     [t |-> cands[i], final |-> PostScore(cands[i], tagsOk, tp, mood)]]
      sortedC == StableSort(weighted, LAMBDA a, b : a.final > b.final)
  IN AppendUnseen(<< >>, {}, [i \in DOMAIN sortedC |-> sortedC[i].t], ResultsCap)

\* the tag prefetch (never throws), the weighted sort, and the first loop over results
FetchTagsAndScore ==
  /\ pc = "tags"
  /\ calls' = IF PrimaryArtists(candidates) = << >> THEN calls ELSE calls \cup {"artist-tags"}
  /\ \E tagsOk \in BOOLEAN :
       \E r \in {FirstResults(candidates, tagsOk, taste, selectedMood)} :
          results' = r.results /\ seen' = r.seen
  /\ pc' = "mbmap"
  /\ UNCHANGED <<req, token, allEmpty, selectedMood, signals, personal, mb, scored,
                 anchorCandidates, taste, qi, rawOut, candidates, final, list, out,
                 response>>
  /\ UNCHANGED auxVars

(***************************************************************************)
(* POST: MusicBrainz mapping, padding, fallback search                     *)
(***************************************************************************)
RecKey(r) == r.title \o <<"@@">> \o r.artist
\* the recordings the worker looks up: those whose key is not in `seen` when it starts
Eligible(recs, seenKeys) == {i \in DOMAIN recs : RecKey(recs[i]) \notin seenKeys}
\* the non-null entries of runWithConcurrency's result: found[i] tells whether
\* searchSpotifySingle returned a track with a url for recs[i]
MappedTracks(recs, outcome) ==
  LET all == [i \in DOMAIN recs |->
                [t |-> TrackOfRecording(recs[i]),
                 hit |-> i \in DOMAIN outcome /\ outcome[i] = "found"]]
      hits == SelectSeq(all, LAMBDA e : e.hit)
  IN [i \in DOMAIN hits |-> hits[i].t]
SingleOutcomes == {"found", "none", "throw"}
\* where POST goes once `results` is filled by a stage
AfterFill(res, nextPad) == IF Len(res) < LowResults THEN nextPad ELSE "combine"

MapMusicBrainz ==
  /\ pc = "mbmap"
  /\ \E outcome \in [Eligible(scored, seen) -> SingleOutcomes] :
       \E r \in {AppendUnseen(results, seen, MappedTracks(scored, outcome), MappedCap)} :
          /\ results' = r.results
          /\ seen' = r.seen
          /\ allEmpty' = (allEmpty /\ \A i \in DOMAIN outcome : outcome[i] = "none")
          /\ pc' = AfterFill(r.results, "pad")
  /\ calls' = IF Eligible(scored, seen) = {} THEN calls ELSE calls \cup {"search"}
  /\ UNCHANGED <<req, token, selectedMood, signals, personal, mb, scored, anchorCandidates,
                 taste, qi, rawOut, candidates, final, list, out, response>>
  /\ UNCHANGED auxVars

PadMusicBrainz ==
  /\ pc = "pad"
  /\ \E outcome \in [Eligible(mb, seen) -> SingleOutcomes] :
       \E r \in {AppendUnseen(results, seen, MappedTracks(mb, outcome), LowResults)} :
          /\ results' = r.results
          /\ seen' = r.seen
          /\ allEmpty' = (allEmpty /\ \A i \in DOMAIN outcome : outcome[i] = "none")
          /\ pc' = AfterFill(r.results, "fallback")
  /\ calls' = IF Eligible(mb, seen) = {} THEN calls ELSE calls \cup {"search"}
  /\ UNCHANGED <<req, token, selectedMood, signals, personal, mb, scored, anchorCandidates,
                 taste, qi, rawOut, candidates, final, list, out, response>>
  /\ UNCHANGED auxVars

\* searchTracks(token, selectedMood, 10, market): throws on a non-2xx answer
FallbackLimit == 10
FallbackAnswer(o) ==
  IF o = "fresh" THEN [j \in 1..FallbackLimit |-> Item(j)]
  ELSE IF o = "special" THEN SpecialPage
  ELSE << >>
searchTracks(o) ==
  IF o = "throw" THEN [error |-> "fetch failed", tracks |-> << >>]
  ELSE IF o = "non2xx" THEN [error |-> "Search failed: 500", tracks |-> << >>]
  ELSE [error |-> "",
        tracks |-> [i \in DOMAIN FallbackAnswer(o) |-> TrackOfItem(FallbackAnswer(o)[i])]]

\* fb.map((t) => ({ ...t, matchReason: "fallback mood search" }))
MarkFallback(tracks) ==
  [i \in DOMAIN tracks |-> [tracks[i] EXCEPT !.matchReason = "fallback mood search"]]

FallbackSearch ==
  /\ pc = "fallback"
  /\ calls' = calls \cup {"search"}
  /\ \E o \in SearchOutcomes :
       \E got \in {searchTracks(o)} :
        \E r \in {AppendUnseen(results, seen, MarkFallback(got.tracks), LowResults)} :
          /\ allEmpty' = (allEmpty /\ o = "empty")
          /\ IF got.error # ""
               THEN Fail(got.error) /\ UNCHANGED <<results, seen>>
               ELSE /\ results' = r.results
                    /\ seen' = r.seen
                    /\ pc' = "combine"
                    /\ UNCHANGED response
  /\ UNCHANGED <<req, token, selectedMood, signals, personal, mb, scored, anchorCandidates,
                 taste, qi, rawOut, candidates, final, list, out>>
  /\ UNCHANGED auxVars

(***************************************************************************)
(* POST: combine, language filter, language padding                        *)
(***************************************************************************)
\* the values Math.random() takes during one shuffle, in hundredths
RandomValues == {0, 50}
Combine ==
  /\ pc = "combine"
  /\ \E r \in RandomValues :
       final' = combinePersonalAndMoodTracks(results, << >>, {}, CombineTotal, r)
  /\ pc' = "filter"
  /\ UNCHANGED <<req, token, calls, allEmpty, selectedMood, signals, personal, mb, scored,
                 anchorCandidates, taste, qi, rawOut, candidates, results, seen, list, out,
                 response>>
  /\ UNCHANGED auxVars

\* a filter that applies the English test whatever the language asked for
FilterEnglishAlways(tracks, lang, genresMap) ==
  SelectSeq(tracks, LAMBDA t : isEnglishStrict(t.title, t.artist, GenresOf(t, genresMap)))
\* a filter that keeps every track whatever the language
FilterNothing(tracks, lang, genresMap) == tracks
\* final.filter(...) with the language of the request
FilterByLanguage(tracks, lang, genresMap) ==
  SelectSeq(tracks, LAMBDA t : LanguageAccepts(lang, t.title, t.artist, GenresOf(t, genresMap)))

FilterLanguage ==
  /\ pc = "filter"
  /\ calls' = IF AllArtistIds(final) = {} THEN calls ELSE calls \cup {"artists"}
  /\ \E ok \in BOOLEAN :
       \E filtered \in {FilterByLanguage(final, req.lang,
                                           ArtistsGenres(AllArtistIds(final), ok))} :
          /\ list' = filtered
          /\ pc' = IF Len(filtered) < LowResults THEN "langpad" ELSE "rank"
  /\ UNCHANGED <<req, token, allEmpty, selectedMood, signals, personal, mb, scored,
                 anchorCandidates, taste, qi, rawOut, candidates, results, seen, final, out,
                 response>>
  /\ UNCHANGED auxVars

\* buildLanguageHintQueries(lang, moodKey): the number of distinct queries (9 Urdu
\* hints or 5 English ones, each also mixed with the mood query; none for "any")
LanguageHintCount(lang) == IF lang = "urdu" THEN 18 ELSE IF lang = "english" THEN 10 ELSE 0

\* searchSpotifyTracksMulti over the answers of its queries, in order
searchSpotifyTracksMulti(answers, capTotal) ==
  LET f[i \in 0..Len(answers)] ==
        IF i = 0 THEN << >>
        ELSE IF Len(f[i - 1]) >= capTotal THEN f[i - 1]
        ELSE MergeById(f[i - 1], SearchAnswer(answers[i], f[i - 1] \o rawOut), capTotal)
  IN f[Len(answers)]
\* hint queries after the first MaxLangQueries are answered with an empty page
MaxLangQueries == 1

\* the language-hinted candidates that pass the strict filter, appended to the list
LanguagePaddedAll(lst, answers, ok, lang, tp, mood, contextKeywords) ==
  LET raw == searchSpotifyTracksMulti(answers, LangCapTotal)
      cands == scoreAndMapCandidates(raw, tp, mood, contextKeywords)
      kept == FilterByLanguage(cands, lang, ArtistsGenres(AllArtistIds(cands), ok))
  IN [list |-> lst \o kept, fetchedGenres |-> AllArtistIds(cands) # {}]
LanguagePadded(lst, answers, ok, lang, tp, mood, contextKeywords) ==
  LET raw == searchSpotifyTracksMulti(answers, LangCapTotal)
      cands == scoreAndMapCandidates(raw, tp, mood, contextKeywords)
      kept == FilterByLanguage(cands, lang, ArtistsGenres(AllArtistIds(cands), ok))
      r == AppendUnseen(lst, {KeyOf(lst[i]) : i \in DOMAIN lst}, kept, LangPadCap)
  IN [list |-> r.results, fetchedGenres |-> AllArtistIds(cands) # {}]

LanguagePad ==
  /\ pc = "langpad"
  /\ IF LanguageHintCount(req.lang) = 0
       THEN UNCHANGED <<list, calls, allEmpty>>
       ELSE \E answers \in [1..Min2(MaxLangQueries, LanguageHintCount(req.lang)) -> SearchOutcomes],
               ok \in BOOLEAN :
              \E r \in {LanguagePadded(list, answers, ok, req.lang, taste, selectedMood,
                                       SignalKeywords)} :
                 /\ list' = r.list
                 /\ calls' = calls \cup {"search", "langsearch"}
                              \cup (IF r.fetchedGenres THEN {"artists"} ELSE {})
                 /\ allEmpty' = (allEmpty /\ \A i \in DOMAIN answers : answers[i] = "empty")
  /\ pc' = "rank"
  /\ UNCHANGED <<req, token, selectedMood, signals, personal, mb, scored, anchorCandidates,
                 taste, qi, rawOut, candidates, results, seen, final, out, response>>
  /\ UNCHANGED auxVars

(***************************************************************************)
(* POST: final ranking and response                                        *)
(***************************************************************************)
\* a response that returns the whole ranking
FinalSliceAll(ranked) == ranked
\* ranked.slice(0, Math.max(10, Math.min(15, ranked.length)))
FinalSlice(ranked) == Take(ranked, Max2(MinSlice, Min2(MaxSlice, Len(ranked))))

RankAndRespond ==
  /\ pc = "rank"
  /\ \E fok \in BOOLEAN, gok \in BOOLEAN :
       \E ids \in {SpotifyIdsOf(list)} :
        \E sortedOut \in {ScoredOut(list, AudioFeaturesOf(ids, fok), taste, selectedMood,
                                    req.lang, ArtistsGenres(AllArtistIds(list), gok),
                                    SignalTargets)} :
          /\ out' = sortedOut
          /\ response' = <<[ok |-> TRUE, error |-> "",
                            tracks |-> FinalSlice([i \in DOMAIN sortedOut |-> sortedOut[i].tr])]>>
          /\ calls' = calls \cup (IF ids = {} THEN {} ELSE {"audio-features"})
                            \cup (IF AllArtistIds(list) = {} THEN {} ELSE {"artists"})
  /\ pc' = "done"
  /\ UNCHANGED <<req, token, allEmpty, selectedMood, signals, personal, mb, scored,
                 anchorCandidates, taste, qi, rawOut, candidates, results, seen, final, list>>
  /\ UNCHANGED auxVars

Next ==
  \/ GetToken
  \/ FetchPersonal
  \/ FetchMusicBrainz
  \/ FetchPopularity
  \/ FetchAnchors
  \/ BuildTaste
  \/ SearchQuery
  \/ SearchDone
  \/ FetchTagsAndScore
  \/ MapMusicBrainz
  \/ PadMusicBrainz
  \/ FallbackSearch
  \/ Combine
  \/ FilterLanguage
  \/ LanguagePad
  \/ RankAndRespond

Spec == Init /\ [][Next]_vars

(***************************************************************************)
(* scoreByFormula on its own: the inputs are drawn, the ranking stage of   *)
(* POST applies the scorer to them                                         *)
(***************************************************************************)
\* track lists: empty, a page of catalog tracks, a mix of a MusicBrainz-mapped track
\* (no catalog id), tracks with and without audio features, and a track without artists
ScoreLists ==
  {<< >>,
   [i \in 1..LimitEach |-> TrackOfItemOrEmpty(FreshPage(1)[i])],
   <<TrackOfRecording(MBParse(MBUniverse)[1]), TrackOfItemOrEmpty(Item(13)),
     TrackOfItemOrEmpty(UrduItem), TrackOfItemOrEmpty(Item(7)),
     TrackOfItemOrEmpty(NoArtistsItem), TrackOfItemOrEmpty(Item(2))>>}
\* customTargets: every combination of present and absent overrides
OverrideValue(k) == IF k = "tempo" THEN 80 ELSE 25
CustomTargetSets ==
  {[k \in S |-> OverrideValue(k)] : S \in SUBSET {"valence", "energy", "danceability", "tempo"}}
ScoreSignals ==
  {<< >>} \cup
  {<<[moodKey |-> "", energy |-> "mid", tone |-> "neutral", keywords |-> << >>,
      targets |-> ct, rainy |-> FALSE]>> : ct \in CustomTargetSets}

InitScore ==
  /\ req \in {[creds |-> TRUE, lang |-> l, mood |-> m, prompt |-> << >>, user |-> FALSE] :
                l \in Languages, m \in Moods}
  /\ selectedMood = req.mood
  /\ signals \in ScoreSignals
  /\ taste \in {EmptyTaste, buildTasteProfile(TRUE, "ok").taste}
  /\ list \in ScoreLists
  /\ pc = "rank"
  /\ token = "app-token"
  /\ calls = {"token"}
  /\ allEmpty = TRUE
  /\ personal = << >>
  /\ mb = << >>
  /\ scored = << >>
  /\ anchorCandidates = << >>
  /\ qi = 0
  /\ rawOut = << >>
  /\ candidates = << >>
  /\ results = << >>
  /\ seen = {}
  /\ final = << >>
  /\ out = << >>
  /\ response = << >>
  /\ AuxInit

NextScore == RankAndRespond

SpecScore == InitScore /\ [][NextScore]_vars

(***************************************************************************)
(* lib/playlist.ts: the client wrappers and the mock playlist               *)
(***************************************************************************)
titles == <<"Neon Dreams", "Midnight Coffee", "Gentle Rain", "Purple Skyline", "City Lights",
            "Cozy Corners", "Starlit Road">>
artists == <<"Luna Vibe", "Echo Valley", "Astra Nova", "Velvet Wave", "Mono Bloom",
             "Quiet Parade">>
MockCount == 5
PromptMockCount == 4

\* a string holding a lone surrogate: JSON.stringify escapes it, encodeURIComponent
\* throws URIError on it
LoneSurrogate == "\\uD83D"
ClientInputs == {"Happy", "rainy day", LoneSurrogate}

\* img(seed): the picsum url, or the URIError of encodeURIComponent
img(seed, i) ==
  IF seed = LoneSurrogate THEN [throw |-> TRUE, url |-> << >>]
  ELSE [throw |-> FALSE, url |-> <<"https://picsum.photos/seed/", seed, "-", i, "/200/200">>]

\* takeRandom(arr, n); rs[k] is the value of Math.random() at the k-th draw, in hundredths
takeRandom(arr, n, rs) ==
  LET f[k \in 0..n] ==
        IF k = 0 THEN [res |-> << >>, pool |-> arr]
        ELSE LET p == f[k - 1]
                 i == (rs[k] * Len(p.pool)) \div 100
             IN IF p.pool = << >> THEN p
                ELSE [res |-> Append(p.res, p.pool[i + 1]),
                      pool |-> SubSeq(p.pool, 1, i) \o SubSeq(p.pool, i + 2, Len(p.pool))]
  IN f[n].res

\* generatePlaylist(mood) and generatePlaylistFromPrompt(prompt): [throw, tracks]
MockTracks(count, seed, suffix, rsT, rsA) ==
  LET selTitles == takeRandom(titles, count, rsT)
      selArtists == takeRandom(artists, count, rsA)
  IN [throw |-> \E i \in 0..(count - 1) : img(seed, i).throw,
      tracks |-> [k \in 1..count |->
                    [title |-> <<selTitles[k]>> \o suffix,
                     artist |-> selArtists[((k - 1) % Len(selArtists)) + 1],
                     cover |-> img(seed, k - 1).url,
                     previewUrl |-> FALSE]]]
generatePlaylist(mood, rsT, rsA) == MockTracks(MockCount, mood, <<" (", mood, ")">>, rsT, rsA)
generatePlaylistFromPrompt(prompt, rsT, rsA) ==
  MockTracks(PromptMockCount, prompt, <<" - Prompted">>, rsT, rsA)

\* what fetch and res.json() give the wrapper: the fetch rejects, the body is not JSON,
\* the body is the JSON null, or the body is an object
\* An absent `tracks` has hasTracks FALSE; an absent `meta` is << >>, a present one <<meta>>
ApiTrackLists ==
  {<< >>, <<TrackOfItem(Item(1))>>, [i \in 1..MaxSlice |-> TrackOfItemOrEmpty(Item(i))]}
ApiMeta == <<[source |-> "scored"]>>
ApiAnswers ==
  {[how |-> h, ok |-> FALSE, hasTracks |-> FALSE, tracks |-> << >>, meta |-> << >>] :
     h \in {"network", "notjson", "null", "json"}}
  \cup {[how |-> "json", ok |-> TRUE, hasTracks |-> TRUE, tracks |-> t, meta |-> m] :
           t \in ApiTrackLists, m \in {<< >>, ApiMeta}}
  \cup {[how |-> "json", ok |-> o, hasTracks |-> FALSE, tracks |-> << >>, meta |-> ApiMeta] :
           o \in BOOLEAN}

\* a wrapper: try { fetch; res.json(); if (data.ok && data.tracks && data.tracks.length)
\* return the tracks; return the mock } catch { return the mock }
\* `mock` is the [throw, tracks] of the mock generator the wrapper calls
Wrapper(answer, mock) ==
  IF answer.how = "json" /\ answer.ok /\ answer.hasTracks /\ answer.tracks # << >>
    THEN [rejected |-> FALSE, tracks |-> answer.tracks, usedMock |-> FALSE, meta |-> answer.meta]
  ELSE IF mock.throw
    THEN [rejected |-> TRUE, tracks |-> << >>, usedMock |-> FALSE, meta |-> << >>]
  ELSE [rejected |-> FALSE, tracks |-> mock.tracks, usedMock |-> TRUE, meta |-> << >>]
fetchPlaylistByMood(mood, answer, rsT, rsA) == Wrapper(answer, generatePlaylist(mood, rsT, rsA))
fetchPlaylistByPrompt(prompt, answer, rsT, rsA) ==
  Wrapper(answer, generatePlaylistFromPrompt(prompt, rsT, rsA))

RandomDraws(n) == [1..n -> RandomValues]

CallByMood ==
  /\ client = << >>
  /\ \E mood \in ClientInputs, answer \in ApiAnswers :
       \E rsT \in RandomDraws(MockCount), rsA \in RandomDraws(MockCount) :
          client' = <<[fn |-> "mood", input |-> mood, answer |-> answer,
                       result |-> fetchPlaylistByMood(mood, answer, rsT, rsA)]>>
  /\ UNCHANGED notClient

CallByPrompt ==
  /\ client = << >>
  /\ \E prompt \in ClientInputs, answer \in ApiAnswers :
       \E rsT \in RandomDraws(PromptMockCount), rsA \in RandomDraws(PromptMockCount) :
          client' = <<[fn |-> "prompt", input |-> prompt, answer |-> answer,
                       result |-> fetchPlaylistByPrompt(prompt, answer, rsT, rsA)]>>
  /\ UNCHANGED notClient

\* POST at rest, for the components modelled on their own
PostIdle ==
  /\ req = [creds |-> TRUE, lang |-> "any", mood |-> "Happy", prompt |-> << >>, user |-> FALSE]
  /\ pc = "done"
  /\ token = ""
  /\ calls = {}
  /\ allEmpty = TRUE
  /\ selectedMood = ""
  /\ signals = << >>
  /\ personal = << >>
  /\ mb = << >>
  /\ scored = << >>
  /\ anchorCandidates = << >>
  /\ taste = EmptyTaste
  /\ qi = 0
  /\ rawOut = << >>
  /\ candidates = << >>
  /\ results = << >>
  /\ seen = {}
  /\ final = << >>
  /\ list = << >>
  /\ out = << >>
  /\ response = << >>

InitClient == PostIdle /\ AuxInit

NextClient == CallByMood \/ CallByPrompt

SpecClient == InitClient /\ [][NextClient]_vars

(***************************************************************************)
(* fetchWithRetry(input, init, retries = 2, backoffMs = 400)                *)
(***************************************************************************)
DefaultRetries == 2
DefaultBackoffMs == 400
MaxRetries == 2
Pow2(n) == IF n = 0 THEN 1 ELSE IF n = 1 THEN 2 ELSE IF n = 2 THEN 4 ELSE IF n = 3 THEN 8 ELSE 16

\* how one `await fetch(...)` ends: a Response of some status (a 429 carries a
\* Retry-After hint in seconds), a network failure, or the abort of the timeout timer
FetchResponses ==
  {[kind |-> "response", status |-> st, retryAfter |-> 0] : st \in {200, 404, 500, 503}}
  \cup {[kind |-> "response", status |-> 429, retryAfter |-> ra] : ra \in {1, 2}}
FetchRejections ==
  {[kind |-> k, status |-> 0, retryAfter |-> 0] : k \in {"network", "timeout"}}

\* the locals of a call at its entry
FetchCall(retries, backoffMs) ==
  [retries |-> retries, backoffMs |-> backoffMs, attempt |-> 0, at |-> "fetch",
   hist |-> << >>, slept |-> << >>, lastErr |-> "", result |-> << >>]

\* try { const res = await fetch(...); return res } catch (e) { lastErr = e; ... }
FetchAttempt ==
  /\ fr # << >>
  /\ fr[1].at = "fetch"
  /\ \/ \E res \in FetchResponses :
          fr' = <<[fr[1] EXCEPT !.hist = Append(@, res), !.result = <<res>>,
                                !.at = "returned"]>>
     \/ \E e \in FetchRejections :
          fr' = <<[fr[1] EXCEPT !.hist = Append(@, e), !.lastErr = e.kind, !.at = "sleep"]>>
  /\ UNCHANGED notFetch

\* await sleep(backoffMs * 2^attempt); attempt++; then the loop test, and after the loop
\* throw lastErr
BackoffSleep ==
  /\ fr # << >>
  /\ fr[1].at = "sleep"
  /\ fr' = <<[fr[1] EXCEPT !.slept = Append(@, fr[1].backoffMs * Pow2(fr[1].attempt)),
                            !.attempt = @ + 1,
                            !.at = IF fr[1].attempt + 1 <= fr[1].retries THEN "fetch"
                                   ELSE "thrown"]>>
  /\ UNCHANGED notFetch

InitFetch ==
  /\ PostIdle
  /\ ClientIdle /\ SearchIdle /\ RunIdle /\ CacheIdle /\ CombineIdle /\ TasteIdle /\ VibeIdle /\ LangIdle /\ AnchorIdle
  /\ fr \in {<<FetchCall(r, DefaultBackoffMs)>> : r \in 0..MaxRetries}

NextFetch == FetchAttempt \/ BackoffSleep

SpecFetch == InitFetch /\ [][NextFetch]_vars

(***************************************************************************)
(* searchSpotifyTracksMulti(token, queries, limitEach, capTotal, market)    *)
(***************************************************************************)
MaxSearchQueries == 3
MaxCap == 3
NoIdItem == [Item(5) EXCEPT !.id = ""]
\* what the catalog answers to one query: the fetch fails on every attempt, a non-2xx
\* status, or a 2xx page
QueryAnswers ==
  {[kind |-> "throw", items |-> << >>], [kind |-> "non2xx", items |-> << >>],
   [kind |-> "page", items |-> << >>],
   [kind |-> "page", items |-> <<Item(1), Item(2)>>],
   [kind |-> "page", items |-> <<Item(2), NoIdItem, Item(3), Item(1), Item(4)>>]}
QueryFailed(a) == a.kind \in {"throw", "non2xx"}

\* the locals of a call at its entry; `snaps` keeps `out` as it was after each query issued
SearchCall(answers, capTotal) ==
  [answers |-> answers, capTotal |-> capTotal, i |-> 0, out |-> << >>, snaps |-> << >>,
   at |-> "loop"]

\* a loop turn that lets the failure of a query end the call
SearchTurnAbort(c) ==
  LET a == c.answers[c.i + 1]
  IN IF Len(c.out) >= c.capTotal THEN [c EXCEPT !.at = "returned"]
     ELSE IF QueryFailed(a) THEN [c EXCEPT !.i = @ + 1, !.snaps = Append(@, << >>),
                                           !.out = << >>, !.at = "thrown"]
     ELSE [c EXCEPT !.i = @ + 1,
                    !.out = MergeById(c.out, a.items, c.capTotal),
                    !.snaps = Append(@, MergeById(c.out, a.items, c.capTotal))]
\* one turn of `for (const q of queries)`: break at the cap, else fetch and merge; a
\* failure or a non-2xx answer merges nothing
SearchTurn(c) ==
  LET a == c.answers[c.i + 1]
      merged == IF QueryFailed(a) THEN c.out ELSE MergeById(c.out, a.items, c.capTotal)
  IN IF Len(c.out) >= c.capTotal THEN [c EXCEPT !.at = "returned"]
     ELSE [c EXCEPT !.i = @ + 1, !.out = merged, !.snaps = Append(@, merged)]

SearchLoop ==
  /\ sm # << >>
  /\ sm[1].at = "loop"
  /\ sm[1].i < Len(sm[1].answers)
  /\ sm' = <<SearchTurn(sm[1])>>
  /\ UNCHANGED notSearch

\* the loop is over: return out
SearchReturn ==
  /\ sm # << >>
  /\ sm[1].at = "loop"
  /\ sm[1].i = Len(sm[1].answers)
  /\ sm' = <<[sm[1] EXCEPT !.at = "returned"]>>
  /\ UNCHANGED notSearch

InitSearch ==
  /\ PostIdle
  /\ ClientIdle /\ FetchIdle /\ RunIdle /\ CacheIdle /\ CombineIdle /\ TasteIdle /\ VibeIdle /\ LangIdle /\ AnchorIdle
  /\ \E n \in 0..MaxSearchQueries, cap \in 1..MaxCap :
       sm \in {<<SearchCall(as, cap)>> : as \in [1..n -> QueryAnswers]}

NextSearch == SearchLoop \/ SearchReturn

SpecSearch == InitSearch /\ [][NextSearch]_vars

(***************************************************************************)
(* runWithConcurrency(items, limit, worker), with the worker of the         *)
(* MusicBrainz mapping stage of POST and the loop that consumes its result  *)
(***************************************************************************)
MaxRunItems == 3
MaxLimit == 2
RunItems == MBParse(MBUniverse)
WorkerOutcomes == {"found", "none", "throw"}

\* what the worker gives for an item: null without a fetch when the key is in `seen`,
\* a track when searchSpotifySingle finds a url, null when it finds none; a worker that
\* throws leaves undefined in the slot
SlotValue(item, outcome, seenKeys) ==
  IF RecKey(item) \in seenKeys THEN "null"
  ELSE IF outcome = "found" THEN "track"
  ELSE IF outcome = "none" THEN "null"
  ELSE "undefined"

\* const n = Math.max(1, Math.min(limit, items.length))
RunnerCount(limit, len) == Max2(1, Min2(limit, len))

\* the locals of a call at its entry; `plan` is what the external service will answer for
\* each item, `handed` the indices passed to the worker, in order
RunCall(items, limit, plan, seenKeys) ==
  [items |-> items, limit |-> limit, plan |-> plan, seenKeys |-> seenKeys, i |-> 0,
   runners |-> << >>, results |-> [k \in DOMAIN items |-> "unset"], handed |-> << >>,
   at |-> "entry", consumed |-> << >>]

\* next(): idx = i++; past the end the runner is over, else the worker is invoked
TakeNext(c, k) ==
  IF c.i >= Len(c.items)
    THEN [c EXCEPT !.i = @ + 1, !.runners[k] = [idx |-> 0, st |-> "done"]]
  ELSE [c EXCEPT !.i = @ + 1, !.runners[k] = [idx |-> c.i + 1, st |-> "working"],
                 !.handed = Append(@, c.i + 1)]

\* for (let k = 0; k < n; k++) runners.push(next())
StartRunners(c) ==
  LET n == RunnerCount(c.limit, Len(c.items))
      c0 == [c EXCEPT !.runners = [k \in 1..n |-> [idx |-> 0, st |-> "done"]],
                      !.at = "running"]
      f[k \in 0..n] == IF k = 0 THEN c0 ELSE TakeNext(f[k - 1], k)
  IN f[n]

\* a store that puts the value in the first slot still unset
WriteResultInOrder(slots, idx, v) ==
  LET free == {j \in DOMAIN slots : slots[j] = "unset"}
  IN [slots EXCEPT ![CHOOSE j \in free : \A m \in free : j <= m] = v]
\* results[idx] = await worker(items[idx], idx)   /   results[idx] = undefined
WriteResult(slots, idx, v) == [slots EXCEPT ![idx] = v]

\* a runner without the catch: a worker that throws ends the call
SettleUncaught(c, k) ==
  LET idx == c.runners[k].idx
      v == SlotValue(c.items[idx], c.plan[idx], c.seenKeys)
  IN IF v = "undefined"
       THEN [c EXCEPT !.runners[k] = [idx |-> 0, st |-> "done"], !.at = "thrown"]
     ELSE TakeNext([c EXCEPT !.results = WriteResult(@, idx, v)], k)
\* the worker of runner k settles: the slot is written, then `await next()`
Settle(c, k) ==
  LET idx == c.runners[k].idx
      v == SlotValue(c.items[idx], c.plan[idx], c.seenKeys)
  IN TakeNext([c EXCEPT !.results = WriteResult(@, idx, v)], k)

RunStart ==
  /\ rc # << >>
  /\ rc[1].at = "entry"
  /\ rc' = <<StartRunners(rc[1])>>
  /\ UNCHANGED notRun

WorkerSettles ==
  /\ rc # << >>
  /\ rc[1].at = "running"
  /\ \E k \in DOMAIN rc[1].runners :
       /\ rc[1].runners[k].st = "working"
       /\ rc' = <<Settle(rc[1], k)>>
  /\ UNCHANGED notRun

\* await Promise.all(runners); return results
RunReturn ==
  /\ rc # << >>
  /\ rc[1].at = "running"
  /\ \A k \in DOMAIN rc[1].runners : rc[1].runners[k].st = "done"
  /\ rc' = <<[rc[1] EXCEPT !.at = "returned"]>>
  /\ UNCHANGED notRun

\* for (const t of searchResults) { if (!t) continue; ...seen...; results.push(t); ... }
SlotTracks(c) ==
  LET all == [j \in DOMAIN c.items |->
                [t |-> TrackOfRecording(c.items[j]), hit |-> c.results[j] = "track"]]
      hits == SelectSeq(all, LAMBDA e : e.hit)
  IN [j \in DOMAIN hits |-> hits[j].t]
ConsumeResults ==
  /\ rc # << >>
  /\ rc[1].at = "returned"
  /\ rc' = <<[rc[1] EXCEPT !.at = "consumed",
                            !.consumed = AppendUnseen(<< >>, rc[1].seenKeys, SlotTracks(rc[1]),
                                                      MappedCap).results]>>
  /\ UNCHANGED notRun

InitRun ==
  /\ PostIdle
  /\ ClientIdle /\ FetchIdle /\ SearchIdle /\ CacheIdle /\ CombineIdle /\ TasteIdle /\ VibeIdle /\ LangIdle /\ AnchorIdle
  /\ \E n \in 0..MaxRunItems, limit \in 1..MaxLimit :
       \E items \in {Take(RunItems, n)} :
         rc \in {<<RunCall(items, limit, plan, seenKeys)>> :
                   plan \in [DOMAIN items -> WorkerOutcomes],
                   seenKeys \in {{}, {RecKey(RunItems[2])}}}

NextRun == RunStart \/ WorkerSettles \/ RunReturn \/ ConsumeResults

SpecRun == InitRun /\ [][NextRun]_vars
\* every pending promise settles and every continuation is run
SpecRunFair == SpecRun /\ WF_vars(NextRun)

(***************************************************************************)
(* PERSONAL_CACHE and concurrent fetchPersonalSeeds(userToken) calls        *)
(***************************************************************************)
PersonalTtlMs == 600000
MaxRequests == 3

CacheUsers == {"u1", "u2"}
\* the answer of /v1/me for a token: a rejection, a non-2xx answer, an answer
\* without id, or the user
UserTokens == {"tok-u1", "tok-u2"}
TokenUser(t) == IF t = "tok-u1" THEN "u1" ELSE "u2"
MeAnswers(t) ==
  {[how |-> "throw", id |-> ""], [how |-> "non2xx", id |-> ""], [how |-> "ok", id |-> ""],
   [how |-> "ok", id |-> TokenUser(t)]}

\* Date.now(): the clock readings, around the TTL boundary
ClockReadings == <<0, PersonalTtlMs - 1, PersonalTtlMs>>
ClockAt(t) == ClockReadings[t + 1]

\* what the three endpoints hold for a user
LibraryArtists(u) == <<[id |-> <<u, "artist">>, name |-> <<u, "name">>]>>
LibraryTopTracks(u) == <<[id |-> <<u, "top">>]>>
LibraryRecent(u) == <<[track |-> [id |-> <<u, "recent">>]]>>
\* Promise.all of the three fetchWithRetry calls: one rejects, or each is ok or not
SeedAnswers ==
  {[how |-> "throw", artistsOk |-> FALSE, tracksOk |-> FALSE, recentOk |-> FALSE]}
  \cup {[how |-> "answered", artistsOk |-> a, tracksOk |-> TRUE, recentOk |-> a] :
          a \in BOOLEAN}

\* const seeds: PersonalSeeds = { userId, username, topArtistIds, ..., ts: now }
BuildSeeds(userId, now, ans) ==
  LET topArtistsJson == IF ans.artistsOk THEN LibraryArtists(userId) ELSE << >>
      topTracksJson == IF ans.tracksOk THEN LibraryTopTracks(userId) ELSE << >>
      recentJson == IF ans.recentOk THEN LibraryRecent(userId) ELSE << >>
  IN [userId |-> userId,
      username |-> <<userId, "display_name">>,
      topArtistIds |-> [i \in DOMAIN topArtistsJson |-> topArtistsJson[i].id],
      topArtistNames |-> [i \in DOMAIN topArtistsJson |-> topArtistsJson[i].name],
      topTrackIds |-> [i \in DOMAIN topTracksJson |-> topTracksJson[i].id],
      recentTrackIds |-> [i \in DOMAIN recentJson |-> recentJson[i].track.id],
      ts |-> now]

\* cached && now - cached.ts < 10 * 60 * 1000; an absent entry is << >>
CacheFreshNoTtl(cached, now) == cached # << >>
CacheFresh(cached, now) == cached # << >> /\ now - cached[1].ts < PersonalTtlMs

\* PERSONAL_CACHE.set(userId, seeds)
CacheSet(cache, userId, seeds) == [cache EXCEPT ![userId] = <<seeds>>]

\* one call: where it stands, what it read and what it returned (<< >> is null)
SeedsCall(t) ==
  [token |-> t, at |-> "me", userId |-> "", now |-> 0, saw |-> << >>,
   fetched |-> FALSE, wrote |-> << >>, result |-> << >>]

\* a request arrives while others are still in progress
CacheCall ==
  /\ pcache # << >>
  /\ Len(pcache[1].calls) < MaxRequests
  /\ \E t \in UserTokens :
       pcache' = <<[pcache[1] EXCEPT !.calls = Append(@, SeedsCall(t))]>>
  /\ UNCHANGED notCache

\* /v1/me answers; lines 1206-1215 run up to the await of Promise.all
Identify ==
  /\ pcache # << >>
  /\ \E k \in DOMAIN pcache[1].calls :
       /\ pcache[1].calls[k].at = "me"
       /\ \E me \in MeAnswers(pcache[1].calls[k].token) :
            \E now \in {ClockAt(pcache[1].tick)} :
              pcache' =
                <<[pcache[1] EXCEPT !.calls[k] =
                     IF me.how # "ok" \/ me.id = ""
                     THEN [@ EXCEPT !.at = "done"]
                     ELSE IF CacheFresh(pcache[1].cache[me.id], now)
                     THEN [@ EXCEPT !.at = "done", !.userId = me.id, !.now = now,
                                    !.saw = pcache[1].cache[me.id],
                                    !.result = pcache[1].cache[me.id]]
                     ELSE [@ EXCEPT !.at = "fetch", !.userId = me.id, !.now = now,
                                    !.saw = pcache[1].cache[me.id],
                                    !.fetched = TRUE]]>>
  /\ UNCHANGED notCache

\* the three answers are in; lines 1223-1239, or the catch of line 1240
SeedsArrive ==
  /\ pcache # << >>
  /\ \E k \in DOMAIN pcache[1].calls :
       /\ pcache[1].calls[k].at = "fetch"
       /\ \E ans \in SeedAnswers :
            IF ans.how = "throw"
            THEN pcache' = <<[pcache[1] EXCEPT !.calls[k].at = "done"]>>
            ELSE \E seeds \in {BuildSeeds(pcache[1].calls[k].userId,
                                          pcache[1].calls[k].now, ans)} :
                   pcache' =
                     <<[pcache[1] EXCEPT
                          !.cache = CacheSet(@, seeds.userId, seeds),
                          !.writers = [@ EXCEPT ![seeds.userId] = k],
                          !.calls[k] = [@ EXCEPT !.at = "done", !.wrote = <<seeds>>,
                                                 !.result = <<seeds>>]]>>
  /\ UNCHANGED notCache

\* time passes
Tick ==
  /\ pcache # << >>
  /\ pcache[1].tick + 1 < Len(ClockReadings)
  /\ pcache' = <<[pcache[1] EXCEPT !.tick = @ + 1]>>
  /\ UNCHANGED notCache

\* const PERSONAL_CACHE = new Map<string, PersonalSeeds>()
InitCache ==
  /\ PostIdle
  /\ ClientIdle /\ FetchIdle /\ SearchIdle /\ RunIdle /\ CombineIdle /\ TasteIdle /\ VibeIdle /\ LangIdle /\ AnchorIdle
  /\ pcache = <<[cache |-> [u \in CacheUsers |-> << >>],
                 writers |-> [u \in CacheUsers |-> 0],
                 calls |-> << >>, tick |-> 0]>>

NextCache == CacheCall \/ Identify \/ SeedsArrive \/ Tick

SpecCache == InitCache /\ [][NextCache]_vars

(***************************************************************************)
(* combinePersonalAndMoodTracks on its own: the lists, the excluded keys,   *)
(* the target count and the value of Math.random() are drawn                *)
(***************************************************************************)
MaxTotal == 3

CombineTrack(title) ==
  [title |-> <<title>>, artist |-> <<"aa">>, previewUrl |-> FALSE,
   spotifyUrl |-> <<"https://open.spotify.com/track/", title>>, spotifyId |-> title,
   artistIds |-> << >>, primaryArtistId |-> "", matchReason |-> ""]
PersonalLists ==
  {<< >>, <<CombineTrack("one")>>, <<CombineTrack("one"), CombineTrack("two")>>,
   <<CombineTrack("two"), CombineTrack("one"), CombineTrack("three")>>}
MoodLists ==
  {<< >>, <<CombineTrack("three")>>, <<CombineTrack("two"), CombineTrack("four")>>,
   <<CombineTrack("four"), CombineTrack("three"), CombineTrack("one")>>}
ExcludeSets == {{}, {KeyOf(CombineTrack("two"))}}
\* Math.random() in hundredths: 0, 0.5 and 0.99
CombineDraws == {0, 50, 99}

CombineCall(personalTracks, moodTracks, excludeKeys, total) ==
  [personal |-> personalTracks, moodTracks |-> moodTracks, excludeKeys |-> excludeKeys,
   total |-> total, at |-> "entry", r |-> 0, out |-> << >>]

CombineReturn ==
  /\ cmb # << >>
  /\ cmb[1].at = "entry"
  /\ \E r \in CombineDraws :
       cmb' = <<[cmb[1] EXCEPT
                   !.at = "returned", !.r = r,
                   !.out = combinePersonalAndMoodTracks(cmb[1].personal, cmb[1].moodTracks,
                                                        cmb[1].excludeKeys, cmb[1].total, r)]>>
  /\ UNCHANGED notCombine

InitCombine ==
  /\ PostIdle
  /\ ClientIdle /\ FetchIdle /\ SearchIdle /\ RunIdle /\ CacheIdle /\ TasteIdle /\ VibeIdle /\ LangIdle /\ AnchorIdle
  /\ cmb \in {<<CombineCall(p, m, x, total)>> :
                p \in PersonalLists, m \in MoodLists, x \in ExcludeSets, total \in 1..MaxTotal}

NextCombine == CombineReturn

SpecCombine == InitCombine /\ [][NextCombine]_vars

(***************************************************************************)
(* buildTasteProfile(userToken) on its own: each history fetch has its own  *)
(* outcome                                                                  *)
(***************************************************************************)
TasteCall(outs) == [outs |-> outs, at |-> "entry", error |-> "", taste |-> EmptyTaste]

\* the call settles: it resolves with the profile or rejects with the fetch error
TasteSettles ==
  /\ tasteCall # << >>
  /\ tasteCall[1].at = "entry"
  /\ \E b \in {buildTasteProfileFrom(tasteCall[1].outs)} :
       tasteCall' = <<[tasteCall[1] EXCEPT
                         !.at = IF b.error = "" THEN "returned" ELSE "rejected",
                         !.error = b.error, !.taste = b.taste]>>
  /\ UNCHANGED notTaste

\* the next call with a user credential
TasteAgain ==
  /\ tasteCall # << >>
  /\ tasteCall[1].at # "entry"
  /\ \E outs \in [TasteSources -> SourceOutcomes] : tasteCall' = <<TasteCall(outs)>>
  /\ UNCHANGED notTaste

InitTaste ==
  /\ PostIdle
  /\ ClientIdle /\ FetchIdle /\ SearchIdle /\ RunIdle /\ CacheIdle /\ CombineIdle
  /\ VibeIdle /\ LangIdle /\ AnchorIdle
  /\ tasteCall \in {<<TasteCall(outs)>> : outs \in [TasteSources -> SourceOutcomes]}

NextTaste == TasteSettles \/ TasteAgain

SpecTaste == InitTaste /\ [][NextTaste]_vars

(***************************************************************************)
(* The anchor block of POST on its own: the anchors, their audio features   *)
(* and the answers of the recommendation and related-artist calls are drawn *)
(***************************************************************************)
\* n anchors of which the first k pass the hard rule of the mood Happy
AnchorShapes == {<<0, 0>>, <<1, 0>>, <<1, 1>>, <<3, 1>>, <<3, 2>>, <<20, 6>>, <<20, 7>>, <<20, 8>>}
AnchorTracks(n) == [i \in 1..n |-> TrackOfItemOrEmpty(Item(i))]
PassingFeatures == [valence |-> 80, energy |-> 70, danceability |-> 60, tempo |-> 110]
FailingFeatures == [valence |-> 20, energy |-> 30, danceability |-> 30, tempo |-> 80]
\* fetchAudioFeatures for the first n tracks and track 30; empty when the call fails
AnchorFeatures(n, k, ok) ==
  IF ok THEN [id \in {TrackIds[i] : i \in (1..n) \cup {30}} |->
                IF TrackIndex(id) <= k \/ TrackIndex(id) = 30 THEN PassingFeatures
                ELSE FailingFeatures]
  ELSE EmptyObj
RecsAnswers ==
  {[error |-> TRUE, tracks |-> << >>], [error |-> FALSE, tracks |-> << >>],
   [error |-> FALSE, tracks |-> <<TrackOfItemOrEmpty(Item(30))>>]}
Recs2Answer == [error |-> FALSE, tracks |-> <<TrackOfItemOrEmpty(Item(31))>>]

AnchorCall(topArtistIds, shape, fok, recs, related) ==
  [topArtistIds |-> topArtistIds, n |-> shape[1], k |-> shape[2], fok |-> fok, recs |-> recs,
   related |-> related, at |-> "entry", candidates |-> << >>, before |-> << >>,
   assessed |-> FALSE, expanded |-> FALSE]

\* lines 1342-1384 for a signed-in user whose seeds were fetched
AnchorRun ==
  /\ anchorCall # << >>
  /\ anchorCall[1].at = "entry"
  /\ \E c \in {anchorCall[1]} :
       \E viaArtists \in {IF c.topArtistIds = << >> THEN << >> ELSE AnchorTracks(c.n)} :
         \E b \in {AnchorBlock(c.topArtistIds, "Happy", viaArtists, c.recs,
                               AnchorFeatures(c.n, c.k, c.fok), c.related, Recs2Answer,
                               EmptyObj)} :
           anchorCall' = <<[c EXCEPT !.at = "done", !.candidates = b.candidates,
                                     !.before = b.before, !.assessed = b.assessed,
                                     !.expanded = b.expanded]>>
  /\ UNCHANGED notAnchor

InitAnchor ==
  /\ PostIdle
  /\ ClientIdle /\ FetchIdle /\ SearchIdle /\ RunIdle /\ CacheIdle /\ CombineIdle
  /\ TasteIdle /\ VibeIdle /\ LangIdle
  /\ anchorCall \in {<<AnchorCall(a, shape, fok, recs, related)>> :
                       a \in {<< >>, <<"arA">>}, shape \in AnchorShapes, fok \in BOOLEAN,
                       recs \in RecsAnswers, related \in {<< >>, <<"arB">>}}

NextAnchor == AnchorRun

SpecAnchor == InitAnchor /\ [][NextAnchor]_vars

(***************************************************************************)
(* The mood resolution of POST and extractVibeSignals on their own: the     *)
(* request's mood and prompt are drawn, the rules are applied one at a time *)
(***************************************************************************)
\* the rules in the order of the source, the intensity heuristic last
VibeRules == <<"rain", "heartbreak", "nostalgia", "angry", "focus", "party", "sad", "intensity">>
\* one word of the prompt for each of the seven keyword rules
TriggerWords == <<"rainy", "heartbreak", "nostalgia", "angry", "study", "party", "sad">>
MaxIntensity == 2
\* n intensity marks: intensifier words and exclamation marks in turn
IntensityMarks(n) == [i \in 1..n |-> IF i % 2 = 1 THEN "very" ELSE "!"]
\* a prompt that matches exactly the keyword rules of `rules`, with n intensity marks
VibePrompt(rules, n) ==
  LET f[i \in 0..Len(TriggerWords)] ==
        IF i = 0 THEN <<"music">>
        ELSE IF i \in rules THEN Append(f[i - 1], TriggerWords[i]) ELSE f[i - 1]
  IN f[Len(TriggerWords)] \o IntensityMarks(n)
ExamplePrompt == <<"a", "rainy", "day", "in", "a", "cozy", "cafe">>
VibePrompts ==
  {VibePrompt(rules, n) : rules \in SUBSET (1..Len(TriggerWords)), n \in 0..MaxIntensity}
    \cup {ExamplePrompt, << >>}

\* the i-th test of extractVibeSignals on the lower-cased text
RuleMatches(i, s) ==
  CASE i = 1 -> IncludesAny(s, RainWords)
    [] i = 2 -> IncludesAny(s, HeartbreakWords)
    [] i = 3 -> IncludesAny(s, NostalgiaWords)
    [] i = 4 -> IncludesAny(s, AngryWords)
    [] i = 5 -> IncludesAny(s, FocusWords)
    [] i = 6 -> IncludesAny(s, PartyWords)
    [] i = 7 -> IncludesAny(s, SadWords)
    [] OTHER -> Cardinality({j \in DOMAIN s : s[j] = "!" \/ s[j] \in IntensifierWords}) >= 2
\* the i-th block of extractVibeSignals
ApplyRule(i, s, st) ==
  CASE i = 1 -> RuleRain(s, st)
    [] i = 2 -> RuleHeartbreak(s, st)
    [] i = 3 -> RuleNostalgia(s, st)
    [] i = 4 -> RuleAngry(s, st)
    [] i = 5 -> RuleFocus(s, st)
    [] i = 6 -> RuleParty(s, st)
    [] i = 7 -> RuleSad(s, st)
    [] OTHER -> RuleIntensity(s, st)

VibeCall(mood, prompt) ==
  [mood |-> mood, prompt |-> prompt, at |-> "entry", fallback |-> "", st |-> VibeStart(""),
   matched |-> << >>, trace |-> << >>, signals |-> << >>, selectedMood |-> ""]

\* lines 1299-1308: selectedMood before the signals are read
VibeResolve ==
  /\ vibeCall # << >>
  /\ vibeCall[1].at = "entry"
  /\ \E c \in {vibeCall[1]} :
       \E sel0 \in {IF c.mood # "" THEN c.mood
                    ELSE IF c.prompt # << >> THEN PreClassify(c.prompt) ELSE "Happy"} :
         vibeCall' = IF c.prompt = << >>
                       THEN <<[c EXCEPT !.at = "done", !.fallback = sel0, !.selectedMood = sel0]>>
                       ELSE <<[c EXCEPT !.at = "rules", !.fallback = sel0,
                                        !.st = VibeStart(sel0)]>>
  /\ UNCHANGED notVibe

\* one block of extractVibeSignals: the test and, when it matches, its effects
VibeRule ==
  /\ vibeCall # << >>
  /\ vibeCall[1].at = "rules"
  /\ Len(vibeCall[1].trace) < Len(VibeRules)
  /\ \E c \in {vibeCall[1]} :
       \E i \in {Len(c.trace) + 1} :
         \E st \in {ApplyRule(i, Lower(c.prompt), c.st)} :
           vibeCall' = <<[c EXCEPT !.st = st, !.trace = Append(@, st.targets),
                                   !.matched = Append(@, RuleMatches(i, Lower(c.prompt)))]>>
  /\ UNCHANGED notVibe

\* lines 538-540 and 1310-1311: the signals returned, and the mood POST goes on with
VibeReturn ==
  /\ vibeCall # << >>
  /\ vibeCall[1].at = "rules"
  /\ Len(vibeCall[1].trace) = Len(VibeRules)
  /\ \E c \in {vibeCall[1]} :
       \E sig \in {extractVibeSignals(c.prompt, c.fallback)} :
         vibeCall' = <<[c EXCEPT !.at = "done", !.signals = <<sig>>,
                                 !.selectedMood = IF sig.moodKey # "" THEN sig.moodKey
                                                  ELSE c.fallback]>>
  /\ UNCHANGED notVibe

InitVibe ==
  /\ PostIdle
  /\ ClientIdle /\ FetchIdle /\ SearchIdle /\ RunIdle /\ CacheIdle /\ CombineIdle
  /\ TasteIdle /\ LangIdle /\ AnchorIdle
  /\ vibeCall \in {<<VibeCall(mood, prompt)>> :
                     mood \in {"", "Happy", "Sad", "Energetic"}, prompt \in VibePrompts}

NextVibe == VibeResolve \/ VibeRule \/ VibeReturn

SpecVibe == InitVibe /\ [][NextVibe]_vars

(***************************************************************************)
(* The two language classifiers on their own: title, artist and artist      *)
(* genres are drawn, both classifiers are asked                             *)
(***************************************************************************)
LangTitles ==
  {<<"t01">>, <<"T01", "t02">>, <<"urdu">>, <<"pakistan">>, <<"coke studio">>, <<"qawwali">>,
   <<"ghazal">>, <<"dua lipa">>, <<"<arabic-script:dil>">>, <<"t01", "<arabic-script:ishq>">>,
   <<"007">>, << >>}
LangArtists == {<<"m01">>, <<"dua lipa">>, <<"<arabic-script:ishq>">>, <<"@@">>}
LangGenres == {<< >>, <<"pop">>, <<"sufi">>, <<"pakistani pop">>, <<"pop", "hindi">>}

LangCall(title, artist, genres) ==
  [title |-> title, artist |-> artist, genres |-> genres, at |-> "entry",
   english |-> FALSE, urdu |-> FALSE]

\* the track goes through the english filter and through the urdu filter
LangClassify ==
  /\ langCall # << >>
  /\ langCall[1].at = "entry"
  /\ \E c \in {langCall[1]} :
       langCall' = <<[c EXCEPT !.at = "done",
                               !.english = isEnglishStrict(c.title, c.artist, c.genres),
                               !.urdu = isUrduStrict(c.title, c.artist, c.genres)]>>
  /\ UNCHANGED notLang

InitLang ==
  /\ PostIdle
  /\ ClientIdle /\ FetchIdle /\ SearchIdle /\ RunIdle /\ CacheIdle /\ CombineIdle
  /\ TasteIdle /\ VibeIdle /\ AnchorIdle
  /\ langCall \in {<<LangCall(title, artist, genres)>> :
                     title \in LangTitles, artist \in LangArtists, genres \in LangGenres}

NextLang == LangClassify

SpecLang == InitLang /\ [][NextLang]_vars

(***************************************************************************)
(* Properties                                                              *)
(***************************************************************************)
Responded == response # << >>
RespondedOk == response # << >> /\ response[1].ok
Tracks == response[1].tracks

\* C1: in every ok:true response no two tracks have the same (title, artist) pair
\* after trimming and lower-casing
C1_NoNormalizedDuplicates ==
  RespondedOk =>
    \A i, j \in DOMAIN Tracks : i # j => NormKey(Tracks[i]) # NormKey(Tracks[j])

\* C2: in every ok:true response the number of tracks is between 0 and the cap of 15 and
\* never exceeds the size of the language-filtered and padded pool, whatever size the
\* intermediate result list reached
C2_SizeWithinCapAndPool ==
  RespondedOk =>
    /\ Len(Tracks) >= 0
    /\ Len(Tracks) <= MaxSlice
    /\ Len(Tracks) <= Len(list)
C2_Witness ==
  /\ RespondedOk
  /\ Len(results) > ResultsCap
  /\ Len(list) > MaxSlice
  /\ Len(Tracks) = MaxSlice

\* C3: every track of an ok:true response has a non-empty title and a non-empty artist
C3_TitleAndArtistNonEmpty ==
  RespondedOk =>
    \A i \in DOMAIN Tracks : OrEmpty(Tracks[i].title) # << >> /\ OrEmpty(Tracks[i].artist) # << >>

\* C4: a response is ok:false only when the application token was not acquired
C4_OnlyTokenFailureFails ==
  (Responded /\ ~response[1].ok) => token = ""

\* C5: when the client id or the client secret is missing the response is ok:false with
\* an error message, no external service is fetched and no pipeline stage runs
C5_MissingCredentials ==
  ~req.creds =>
    /\ calls = {}
    /\ pc \in {"token", "done"}
    /\ pc = "done" => (Responded /\ ~response[1].ok /\ response[1].error # "")
C5_Witness == ~req.creds /\ pc = "done" /\ Responded

\* C6: when the token was acquired and every catalog search answered 2xx with no item,
\* the response is ok:true
C6_EmptySearchesStillOk ==
  (Responded /\ token # "" /\ allEmpty) => response[1].ok

\* C7 as stated: every response is ok:true with a non-empty track list or ok:false with
\* an error string
C7_PopulatedOrError ==
  Responded =>
    \/ response[1].ok /\ Tracks # << >>
    \/ ~response[1].ok /\ response[1].error # ""
\* C7 as amended: every response is ok:true with no error and at most 15 tracks, none
\* exactly when the filtered and padded pool is empty, or ok:false with a non-empty error
\* string and no tracks
C7_ListOrError ==
  Responded =>
    \/ /\ response[1].ok
       /\ response[1].error = ""
       /\ Len(Tracks) <= MaxSlice
       /\ (Tracks = << >>) <=> (list = << >>)
    \/ /\ ~response[1].ok
       /\ response[1].error # ""
       /\ Tracks = << >>
C7_Witness ==
  /\ RespondedOk
  /\ Tracks = << >>
  /\ "search" \in calls

\* C8: the Scored entry of a track is the one scoreByFormula gives the track alone with
\* the same features, taste, mood, language, genres and targets, and the output order is
\* the descending score order with ties in input order
ScoreEqual(a, b) == a.n * b.glen = b.n * a.glen
PosIn(s, x) == CHOOSE k \in DOMAIN s : s[k] = x
C8_ScoreIndependentOfList ==
  (pc = "done" /\ RespondedOk) =>
    /\ Len(out) = Len(list)
    /\ \E fok \in BOOLEAN, gok \in BOOLEAN :
         \A i \in DOMAIN out :
           <<out[i]>> = ScoredOut(<<out[i].tr>>, AudioFeaturesOf(SpotifyIdsOf(list), fok),
                                  taste, selectedMood, req.lang,
                                  ArtistsGenres(AllArtistIds(list), gok), SignalTargets)
    /\ \A i, j \in DOMAIN out :
         i < j => /\ ~ScoreBefore(out[j], out[i])
                  /\ ScoreEqual(out[i], out[j]) => PosIn(list, out[i].tr) < PosIn(list, out[j].tr)
C8_Witness ==
  /\ pc = "done" /\ RespondedOk
  /\ Len(out) >= 3
  /\ out[1].tr # list[1]
  /\ \E i, j \in DOMAIN out : out[i].moodN = 15000 /\ out[j].moodN # 15000
  /\ \E i, j \in DOMAIN out : i # j /\ ScoreEqual(out[i], out[j])

\* C9: for each of the six moods and every combination of present and absent overrides,
\* the targets resolved for scoring have valence, energy and danceability
C9_TargetsResolved ==
  selectedMood \in Moods =>
    {"valence", "energy", "danceability"} \subseteq DOMAIN ResolveTargets(selectedMood, SignalTargets)
C9_Witness ==
  /\ pc = "done" /\ out # << >>
  /\ selectedMood = "Focus"
  /\ signals # << >>
  /\ DOMAIN SignalTargets = {"tempo"}

\* C10: with language "any" the language filter keeps every track (the filtered list is
\* the list it was given) and languageMatch is 1 for every scored track
C10_AnyLanguageKeepsAll ==
  req.lang = "any" =>
    /\ (pc \in {"langpad", "rank"} \/ RespondedOk) => list = final
    /\ \A i \in DOMAIN out : out[i].langMatch = 1
C10_Witness ==
  /\ req.lang = "any"
  /\ RespondedOk
  /\ out # << >>
  /\ \E i \in DOMAIN list : ~isEnglishStrict(list[i].title, list[i].artist, << >>)
  /\ \E i \in DOMAIN list : ~isUrduStrict(list[i].title, list[i].artist, << >>)

\* C11: without a user credential buildTasteProfile fetches nothing and gives the empty
\* profile, tasteMatch is 0 for every scored track and the score of each track is
\* 0.4 moodMatch + 0.1 languageMatch
C11_EmptyTasteScore ==
  ~req.user =>
    /\ "library" \notin calls
    /\ taste = EmptyTaste
    /\ \A i \in DOMAIN out :
         /\ out[i].tasteN = 0
         /\ out[i].n = 4 * out[i].moodN * out[i].glen + 30000 * out[i].glen * out[i].langMatch
C11_Witness ==
  /\ ~req.user
  /\ RespondedOk
  /\ req.lang # "any"
  /\ \E i, j \in DOMAIN out : out[i].moodN # 15000 /\ out[j].moodN = 15000

\* C12: a client wrapper never rejects and always returns a non-empty track list: the
\* API's tracks with usedMock false exactly when the answer parses with ok true and at
\* least one track, otherwise the mock playlist with usedMock true and no meta
ApiUsable(a) == a.how = "json" /\ a.ok /\ a.hasTracks /\ a.tracks # << >>
C12_WrapperNeverRejects ==
  \A i \in DOMAIN client :
    LET c == client[i]
    IN /\ ~c.result.rejected
       /\ c.result.tracks # << >>
       /\ c.result.usedMock = ~ApiUsable(c.answer)
       /\ ApiUsable(c.answer) => c.result.tracks = c.answer.tracks
       /\ ~ApiUsable(c.answer) => c.result.meta = << >>

\* C13: fetchWithRetry retries an attempt that ended in a network failure, a timeout
\* abort or a 5xx response, waits backoffMs * 2^attempt between attempts, and makes at
\* most retries + 1 attempts
Transient(a) == a.kind \in {"network", "timeout"} \/ (a.kind = "response" /\ a.status >= 500)
FetchOver == fr # << >> /\ fr[1].at \in {"returned", "thrown"}
C13_RetriesTransientFailures ==
  \A c \in Range(fr) :
    /\ Len(c.hist) <= c.retries + 1
    /\ \A i \in DOMAIN c.hist :
         i < Len(c.hist) => i \in DOMAIN c.slept /\ c.slept[i] = c.backoffMs * Pow2(i - 1)
    /\ c.at \in {"returned", "thrown"} =>
         \A i \in DOMAIN c.hist :
           Transient(c.hist[i]) => (i < Len(c.hist) \/ i = c.retries + 1)

\* C14: a rate-limit response is not handed to the caller while attempts remain: the
\* fetch layer waits for the Retry-After delay and fetches again
C14_RateLimitHonoured ==
  \A c \in Range(fr) :
    \A i \in DOMAIN c.hist :
      (c.hist[i].kind = "response" /\ c.hist[i].status = 429 /\ i <= c.retries) =>
        /\ ~(c.at = "returned" /\ i = Len(c.hist))
        /\ i \in DOMAIN c.slept /\ c.slept[i] >= 1000 * c.hist[i].retryAfter

\* C15: in searchSpotifyTracksMulti a query that fails or answers non-2xx contributes
\* nothing, the call does not throw, what earlier queries merged is kept, and every
\* later query is still issued until the cap is reached
IsPrefix(s, t) == Len(s) <= Len(t) /\ SubSeq(t, 1, Len(s)) = s
SnapBefore(c, k) == IF k = 1 THEN << >> ELSE c.snaps[k - 1]
C15_FailedQueryAbandoned ==
  \A c \in Range(sm) :
    /\ c.at # "thrown"
    /\ \A k \in DOMAIN c.snaps :
         /\ IsPrefix(SnapBefore(c, k), c.snaps[k])
         /\ QueryFailed(c.answers[k]) => c.snaps[k] = SnapBefore(c, k)
    /\ c.at = "returned" =>
         /\ c.out = SnapBefore(c, Len(c.snaps) + 1)
         /\ Len(c.snaps) = Len(c.answers) \/ Len(c.out) >= c.capTotal
C15_Witness ==
  \E c \in Range(sm) :
    /\ c.at = "returned"
    /\ Len(c.snaps) = 3
    /\ c.answers[1].kind = "page" /\ c.answers[2].kind = "throw"
    /\ c.snaps[1] # << >>
    /\ c.snaps[2] = c.snaps[1]
    /\ Len(c.out) > Len(c.snaps[2])

\* C16: searchSpotifyTracksMulti returns at most capTotal items, all with an id and no
\* two with the same id, in the order the queries were issued and the items arrived; no
\* query is issued once capTotal items are collected
FlatMapAnswers(c) ==
  LET f[k \in 0..Len(c.answers)] ==
        IF k = 0 THEN << >>
        ELSE IF QueryFailed(c.answers[k]) THEN f[k - 1] ELSE f[k - 1] \o c.answers[k].items
  IN f[Len(c.answers)]
ArrivalOrder(c) ==
  LET all == FlatMapAnswers(c)
      WithId == SelectSeq([i \in DOMAIN all |->
                            [x |-> all[i], first |-> all[i].id # "" /\
                               \A j \in 1..(i - 1) : all[j].id # all[i].id]],
                          LAMBDA e : e.first)
  IN [i \in DOMAIN WithId |-> WithId[i].x]
C16_MergedByIdUpToCap ==
  \A c \in Range(sm) :
    /\ Len(c.out) <= c.capTotal
    /\ \A i \in DOMAIN c.out : c.out[i].id # ""
    /\ \A i, j \in DOMAIN c.out : i # j => c.out[i].id # c.out[j].id
    /\ \A k \in DOMAIN c.snaps : Len(SnapBefore(c, k)) < c.capTotal
    /\ c.at = "returned" => c.out = Take(ArrivalOrder(c), c.capTotal)
C16_Witness ==
  \E c \in Range(sm) :
    /\ c.at = "returned"
    /\ Len(c.out) = c.capTotal
    /\ Len(c.snaps) < Len(c.answers)
    /\ Len(ArrivalOrder(c)) > c.capTotal
    /\ \E k \in DOMAIN c.snaps : \E i \in DOMAIN c.answers[k].items : c.answers[k].items[i].id = ""

\* C17: runWithConcurrency never has more than max(1, min(limit, |items|)) workers in
\* flight, hands every item index to the worker exactly once, and returns once the queue
\* is drained, also when workers throw (their slots stay undefined)
InFlight(c) == Cardinality({k \in DOMAIN c.runners : c.runners[k].st = "working"})
C17_RunSafety ==
  \A c \in Range(rc) :
    /\ InFlight(c) <= RunnerCount(c.limit, Len(c.items))
    /\ \A a, b \in DOMAIN c.handed : a # b => c.handed[a] # c.handed[b]
    /\ Range(c.handed) \subseteq DOMAIN c.items
    /\ c.at # "thrown"
    /\ c.at \in {"returned", "consumed"} =>
         /\ Range(c.handed) = DOMAIN c.items
         /\ \A j \in DOMAIN c.items :
              /\ c.results[j] # "unset"
              /\ (c.plan[j] = "throw" /\ RecKey(c.items[j]) \notin c.seenKeys)
                   => c.results[j] = "undefined"
C17_BoundedExactlyOnceCompletes ==
  /\ []C17_RunSafety
  /\ <>(\A c \in Range(rc) : c.at \in {"returned", "consumed"})
C17_Witness ==
  \E c \in Range(rc) :
    /\ c.at = "running"
    /\ Len(c.items) > c.limit /\ c.limit >= 2
    /\ c.results[1] = "unset" /\ c.results[2] = "undefined"
    /\ c.handed = <<1, 2, 3>>
    /\ InFlight(c) = 2

\* C18: whatever the order in which the workers complete, results[i] is the outcome for
\* items[i], and the tracks the mapping stage pushes, in order, are those determined by
\* the items, the answers of the service and the `seen` set at the start
PlanOfEligible(c) == [j \in Eligible(c.items, c.seenKeys) |-> c.plan[j]]
SeedsOfUser(s, u) ==
  /\ DOMAIN s = {"userId", "username", "topArtistIds", "topArtistNames", "topTrackIds",
                 "recentTrackIds", "ts"}
  /\ s.userId = u
  /\ \A f \in {"topArtistIds", "topArtistNames", "topTrackIds", "recentTrackIds"} :
       \A i \in DOMAIN s[f] : s[f][i][1] = u
C19_CacheConsistent ==
  \A c \in Range(pcache) :
    /\ \A u \in CacheUsers :
         /\ c.cache[u] # << >> => SeedsOfUser(c.cache[u][1], u)
         /\ c.cache[u] = IF c.writers[u] = 0 THEN << >> ELSE c.calls[c.writers[u]].wrote
    /\ \A k \in DOMAIN c.calls :
         LET call == c.calls[k]
             young == call.saw # << >> /\ call.now - call.saw[1].ts < 10 * 60 * 1000
         IN /\ call.userId = "" => call.wrote = << >> /\ ~call.fetched
            /\ call.userId # "" =>
                 /\ call.userId = TokenUser(call.token)
                 /\ call.fetched <=> ~young
                 /\ young /\ call.at = "done" => call.result = call.saw /\ call.wrote = << >>
                 /\ call.wrote # << >> => call.wrote[1].userId = call.userId
\* a record was reused at age TTL - 1 and a later call replaced one at age TTL with
\* a record that holds other artists
C19_Witness ==
  \E c \in Range(pcache) :
    /\ \E k \in DOMAIN c.calls :
         /\ c.calls[k].at = "done" /\ ~c.calls[k].fetched /\ c.calls[k].userId # ""
         /\ c.calls[k].now - c.calls[k].saw[1].ts = PersonalTtlMs - 1
    /\ \E k \in DOMAIN c.calls :
         /\ c.calls[k].wrote # << >> /\ c.calls[k].saw # << >>
         /\ c.calls[k].now - c.calls[k].saw[1].ts = PersonalTtlMs
         /\ c.cache[c.calls[k].userId] = c.calls[k].wrote
         /\ c.calls[k].wrote[1].topArtistIds # c.calls[k].saw[1].topArtistIds

\* C20: combinePersonalAndMoodTracks shuffles the merged, deduplicated list before
\* it truncates: whatever the number of distinct tracks, the returned list is the
\* first `total` tracks of the shuffle of the whole merged list.
MergedWhole(c) ==
  AppendUnseen(<< >>, c.excludeKeys, c.personal \o c.moodTracks,
               Len(c.personal) + Len(c.moodTracks) + 1).results
C20_ShuffleBeforeTruncate ==
  \A c \in Range(cmb) :
    c.at = "returned" => c.out = Take(Shuffle(MergedWhole(c), c.r), c.total)
\* what the code does when the merge reaches `total`: the first `total` tracks in
\* merge order, unshuffled
C20_FullMergeUnshuffled ==
  \A c \in Range(cmb) :
    c.at = "returned" /\ Len(MergedWhole(c)) >= c.total
      => c.out = Take(MergedWhole(c), c.total)
C20_ShortMergeShuffled ==
  \A c \in Range(cmb) :
    c.at = "returned" /\ Len(MergedWhole(c)) < c.total
      => c.out = Shuffle(MergedWhole(c), c.r)

\* C21: buildTasteProfile with a user credential always returns a profile; a
\* history fetch that failed (non-2xx, or network failure after the retries)
\* contributes nothing and the other sources' contributions are in the profile.
C21_PartialFailureTolerated ==
  \A c \in Range(tasteCall) :
    c.at # "entry" =>
      /\ c.at = "returned"
      /\ c.taste.topTrackIds = (IF c.outs.tracks = "ok" THEN Range(UserTopTrackIds) ELSE {})
      /\ c.taste.savedTrackIds = (IF c.outs.saved = "ok" THEN Range(UserSavedTrackIds) ELSE {})
      /\ c.taste.recentTrackIds = (IF c.outs.recent = "ok" THEN Range(UserRecentTrackIds) ELSE {})
      /\ c.taste.artistIds = (IF c.outs.artists = "ok"
                              THEN {UserTopArtists[i].id : i \in DOMAIN UserTopArtists}
                              ELSE {})
\* what holds: the claim for non-2xx answers, and a rejection as soon as one fetch
\* fails at the network level
C21_Non2xxTolerated ==
  \A c \in Range(tasteCall) :
    c.at # "entry" =>
      IF \E s \in TasteSources : c.outs[s] = "throw"
      THEN c.at = "rejected"
      ELSE /\ c.at = "returned"
           /\ c.taste.topTrackIds = (IF c.outs.tracks = "ok" THEN Range(UserTopTrackIds) ELSE {})
           /\ c.taste.savedTrackIds = (IF c.outs.saved = "ok" THEN Range(UserSavedTrackIds) ELSE {})
           /\ c.taste.recentTrackIds = (IF c.outs.recent = "ok" THEN Range(UserRecentTrackIds) ELSE {})
           /\ c.taste.artistIds = (IF c.outs.artists = "ok"
                                   THEN {UserTopArtists[i].id : i \in DOMAIN UserTopArtists}
                                   ELSE {})

\* C22: for a signed-in user with at least one top artist, the related-artist
\* expansion is performed exactly when less than 35% of the anchor candidates
\* pass the hard mood gate; it is not performed at 35% or more, nor when there
\* are no anchor candidates.
PassCount(c) ==
  LET feats == AnchorFeatures(c.n, c.k, c.fok)
  IN Cardinality({i \in DOMAIN c.before :
                    /\ c.before[i].spotifyId \in DOMAIN feats
                    /\ passesHardForMood("Happy", feats[c.before[i].spotifyId])})
C22_ExpandsExactlyBelowThreshold ==
  \A c \in Range(anchorCall) :
    c.at = "done" /\ c.topArtistIds # << >> =>
      (c.expanded <=> (c.before # << >> /\ 100 * PassCount(c) < 35 * Len(c.before)))
\* what holds: the claim whenever the recommendations call did not throw; when it
\* throws, the block is left before coverage is assessed and nothing is expanded
C22_ExpandsWhenAssessed ==
  \A c \in Range(anchorCall) :
    c.at = "done" /\ c.topArtistIds # << >> =>
      /\ c.assessed <=> ~c.recs.error
      /\ c.assessed =>
           (c.expanded <=> (c.before # << >> /\ 100 * PassCount(c) < 35 * Len(c.before)))
      /\ ~c.assessed => ~c.expanded

\* C23: whenever language filtering leaves fewer than 10 tracks, a supplementary
\* search with language-hint queries is issued before the response, only
\* candidates not yet in the list are appended, until the list holds 15, and a
\* failed supplementary fetch leaves the smaller list and an ok:true response.
IsPadOf(old, new) ==
  /\ Len(old) <= Len(new)
  /\ SubSeq(new, 1, Len(old)) = old
  /\ \A i \in (Len(old) + 1)..Len(new) : \A j \in 1..(i - 1) : KeyOf(new[j]) # KeyOf(new[i])
  /\ Len(new) <= Max2(Len(old), 15)
PadStep(needsLanguage) ==
  /\ pc = "filter" /\ Len(list') < 10 => pc' = "langpad"
  /\ pc = "filter" /\ Len(list') >= 10 => pc' = "rank"
  /\ pc = "langpad" =>
       /\ pc' = "rank"
       /\ IsPadOf(list, list')
       /\ (needsLanguage => req.lang # "any") => "langsearch" \in calls'
       /\ \A o \in {"throw", "non2xx"}, ok \in BOOLEAN :
            LanguagePadded(list, <<o>>, ok, req.lang, taste, selectedMood,
                           SignalKeywords).list = list
  /\ pc = "rank" => pc' = "done" /\ response' # << >> /\ response'[1].ok
C23_PadsWheneverShort == [][PadStep(FALSE)]_vars
C23_PadsWhenConstrained == [][PadStep(TRUE)]_vars
C23_Witness ==
  /\ pc = "done" /\ RespondedOk
  /\ req.lang # "any"
  /\ "langsearch" \in calls
  /\ Len(list) = 15

\* C24: with the language english or urdu, every track of an ok:true response
\* was accepted by that language's classifier on the artist genres fetched when
\* it was filtered (the catalog's genres, or none when that fetch failed); padding
\* and ranking add no rejected track.
AcceptedAtFiltering(t, lang) ==
  \E ok \in BOOLEAN :
    LanguageAccepts(lang, t.title, t.artist, GenresOf(t, ArtistsGenres(Range(t.artistIds), ok)))
C24_ResponseAcceptedByClassifier ==
  RespondedOk /\ req.lang # "any" =>
    \A i \in DOMAIN Tracks : AcceptedAtFiltering(Tracks[i], req.lang)
\* a constrained response that went through padding and ranking while the combined
\* list held a track the classifier rejects
C24_Witness ==
  /\ RespondedOk /\ req.lang # "any"
  /\ "langsearch" \in calls
  /\ Tracks # << >>
  /\ \E i \in DOMAIN final : ~AcceptedAtFiltering(final[i], req.lang)

\* C25: scoreByFormula returns a permutation of its input tracks, ordered by
\* non-increasing final score = 0.5 tasteMatch + 0.4 moodMatch + 0.1 languageMatch,
\* each sub-score and the final score lying in [0,1].
CountIn(s, x) == Cardinality({i \in DOMAIN s : s[i] = x})
C25_PermutationByScore ==
  (pc = "done" /\ RespondedOk) =>
    LET ranked == [i \in DOMAIN out |-> out[i].tr]
    IN /\ Len(ranked) = Len(list)
       /\ \A x \in Range(list) \cup Range(ranked) : CountIn(ranked, x) = CountIn(list, x)
       /\ \A i, j \in DOMAIN out : i < j => out[i].n * out[j].glen >= out[j].n * out[i].glen
       /\ \A i \in DOMAIN out :
            /\ 0 <= out[i].tasteN /\ out[i].tasteN <= 10000 * out[i].glen
            /\ 0 <= out[i].moodN /\ out[i].moodN <= 30000
            /\ out[i].langMatch \in {0, 1}
            /\ out[i].n = 15 * out[i].tasteN + 4 * out[i].moodN * out[i].glen
                            + 30000 * out[i].glen * out[i].langMatch
            /\ out[i].d = 300000 * out[i].glen
            /\ 0 <= out[i].n /\ out[i].n <= out[i].d
C25_Witness ==
  /\ pc = "done" /\ RespondedOk
  /\ Len(out) >= 6
  /\ \E i \in DOMAIN out : out[i].tr # list[i]
  /\ out[1].n * out[Len(out)].glen > out[Len(out)].n * out[1].glen
  /\ \E i \in DOMAIN out : out[i].langMatch = 0
  /\ \E i \in DOMAIN out : out[i].tasteN > 0

\* C26: in moodMatch every audio feature that is missing for a track (valence,
\* energy, danceability or tempo) contributes the fixed distance 0.6 to the
\* weighted distance, never 0 and never 1.
MoodMatchAsClaimed(tr, features, t) ==
  IF tr.spotifyId = "" \/ tr.spotifyId \notin DOMAIN features THEN 15000
  ELSE LET f == features[tr.spotifyId]
           D(k) == IF k \in DOMAIN f THEN Abs(f[k] - GetOr(t, k, 60)) ELSE 60
           dtempo50 == IF "tempo" \notin DOMAIN f THEN 1800
                       ELSE IF GetOr(t, "tempo", 0) # 0 THEN 50 * Abs(f["tempo"] - t["tempo"])
                       ELSE 3000
           dist == 105 * D("valence") + 105 * D("energy") + 60 * D("danceability") + dtempo50
       IN Max2(0, Min2(30000, 30000 - dist))
C26_MissingFeatureCountsSixTenths ==
  (pc = "done" /\ RespondedOk) =>
    \E fok \in BOOLEAN :
      \A i \in DOMAIN out :
        out[i].moodN = MoodMatchAsClaimed(out[i].tr, AudioFeaturesOf(SpotifyIdsOf(list), fok),
                                          ResolveTargets(selectedMood, SignalTargets))
\* what holds: 0.6 for a missing valence, energy or danceability, 1.0 for a missing tempo
C26_MissingTempoCountsOne ==
  (pc = "done" /\ RespondedOk) =>
    \E fok \in BOOLEAN :
      \A i \in DOMAIN out :
        out[i].moodN = MoodMatch(out[i].tr, AudioFeaturesOf(SpotifyIdsOf(list), fok),
                                 ResolveTargets(selectedMood, SignalTargets))

\* a call of extractVibeSignals that has returned
VibeDone == vibeCall # << >> /\ vibeCall[1].at = "done" /\ vibeCall[1].signals # << >>
\* the targets a keyword rule bounds with Math.min (upper) or Math.max (lower)
UpperBounded(i) ==
  CASE i = 2 -> {"energy"}
    [] i = 3 -> {"energy", "tempo"}
    [] i = 5 -> {"tempo"}
    [] i = 7 -> {"valence", "energy"}
    [] OTHER -> {}
LowerBounded(i) ==
  CASE i = 4 -> {"energy", "tempo"}
    [] i = 6 -> {"tempo"}
    [] OTHER -> {}
\* the bound rule i left in target k still holds after the later matching rule j
BoundKept(c, i, j) ==
  /\ \A k \in UpperBounded(i) : k \in DOMAIN c.trace[j] /\ c.trace[j][k] <= c.trace[i][k]
  /\ \A k \in LowerBounded(i) : k \in DOMAIN c.trace[j] /\ c.trace[j][k] >= c.trace[i][k]

\* C27: for a prompt matching several keyword rules, a bound that an earlier matching rule
\* set on valence, energy or tempo is never loosened or discarded by a later matching rule
C27_BoundsNeverLoosened ==
  vibeCall # << >> =>
    \A i, j \in 1..Min2(7, Len(vibeCall[1].trace)) :
      (i < j /\ vibeCall[1].matched[i] /\ vibeCall[1].matched[j])
        => BoundKept(vibeCall[1], i, j)

\* the keyword rules the prompt of a call matches
MatchedRules(c) == {i \in 1..7 : RuleMatches(i, Lower(c.prompt))}
IntensityReached(c) == RuleMatches(8, Lower(c.prompt))
\* the mood key the rules heartbreak, angry, focus, party and sad assign
AssignedKey(i) ==
  CASE i = 2 -> "Sad" [] i = 4 -> "Energetic" [] i = 5 -> "Focus" [] i = 6 -> "Energetic"
    [] OTHER -> "Sad"
\* the key of the last matching rule, in the order rain .. sad, that assigns one; the
\* nostalgia rule assigns Chill when the key it finds is Energetic, the rain rule none
LastAssignedKey(c) ==
  LET f[i \in 0..7] ==
        IF i = 0 THEN c.fallback
        ELSE IF i \notin MatchedRules(c) THEN f[i - 1]
        ELSE IF i \in {2, 4, 5, 6, 7} THEN AssignedKey(i)
        ELSE IF i = 3 /\ f[i - 1] = "Energetic" THEN "Chill"
        ELSE f[i - 1]
  IN f[7]
\* the targets of the intensity heuristic for a prompt that matches no keyword rule
IntensityTargets(c) ==
  IF IntensityReached(c) /\ c.fallback = "Sad" THEN [energy |-> 30, tempo |-> 75]
  ELSE IF IntensityReached(c) /\ c.fallback = "Energetic" THEN [energy |-> 92, tempo |-> 132]
  ELSE EmptyObj
NoMatchResult(c, targets) ==
  /\ c.signals[1].moodKey = c.fallback
  /\ c.signals[1].tone = "neutral"
  /\ c.signals[1].keywords = << >>
  /\ c.signals[1].targets = targets

\* C28 as stated: the returned mood key is that of the last matching rule, in the order rain,
\* heartbreak, nostalgia, angry, focus, party, sad, that assigns one; when no rule matches the
\* result is the fallback mood, tone neutral, no keywords and no target overrides
C28_NoMatchNoTargets ==
  VibeDone =>
    /\ vibeCall[1].signals[1].moodKey = LastAssignedKey(vibeCall[1])
    /\ MatchedRules(vibeCall[1]) = {} => NoMatchResult(vibeCall[1], EmptyObj)
\* C28 amended: the same, but when no rule matches the target overrides are those of the
\* intensity heuristic: none unless two or more intensity marks meet a fallback mood Sad
\* (energy 0.3, tempo 75) or Energetic (energy 0.92, tempo 132)
C28_LastAssignerWins ==
  VibeDone =>
    /\ vibeCall[1].signals[1].moodKey = LastAssignedKey(vibeCall[1])
    /\ MatchedRules(vibeCall[1]) = {}
         => NoMatchResult(vibeCall[1], IntensityTargets(vibeCall[1]))
C28_Witness ==
  /\ VibeDone
  /\ {4, 6, 7} \subseteq MatchedRules(vibeCall[1])
  /\ vibeCall[1].signals[1].moodKey = "Sad"

LangDone == langCall # << >> /\ langCall[1].at = "done"
\* C30: no (title, artist, artist genres) is accepted by both isEnglishStrict and
\* isUrduStrict
C30_MutuallyExclusive ==
  LangDone => ~(langCall[1].english /\ langCall[1].urdu)
\* C30, what does hold: both classifiers accept only a track of Latin letters whose title or
\* artist holds "coke studio", "pakistan" or "urdu", the urdu terms the english block list lacks
C30_BothOnlyByUnblockedTerms ==
  (LangDone /\ langCall[1].english /\ langCall[1].urdu) =>
    /\ IncludesAny(Lower(Hay(langCall[1].title, langCall[1].artist)),
                   UrduTextTerms \ EnglishBlockTerms)
    /\ ~hasSouthAsianGenre(langCall[1].genres)
    /\ SumOver(Hay(langCall[1].title, langCall[1].artist), ArabicLetters) = 0

====
